---- MODULE Spec2Model ----
(***************************************************************************)
(* Vendor connector framework of synheart-wear: the Garmin connector       *)
(* (services/garmin-cloud/connector.py), its local API                     *)
(* (services/garmin-cloud/api_local.py) and the WHOOP API                  *)
(* (services/whoop-cloud/api.py).                                          *)
(*                                                                         *)
(* The shared library synheart_cloud_connector (CloudConnectorBase,        *)
(* WebhookVerifier, the exception classes, the WHOOP connector) is not     *)
(* among the source files; the parts of it the handlers call are modelled  *)
(* from the specification and are marked as such where they are defined.   *)
(***************************************************************************)
EXTENDS Integers, Sequences, FiniteSets, TLC

VARIABLES
    webhook_secret,   \* VendorConfig.webhook_secret per vendor ("" = not set)
    now,              \* wall clock, in seconds
    messages,         \* MockJobQueue.messages
    request,          \* the webhook request being answered (NoRequest when idle)
    accepted,         \* WHOOP deliveries accepted so far (history)
    parsed,           \* the last direct parse_event invocation (NoCall when none)
    pinned,           \* an earlier parse_event invocation, kept for comparison
    fetch,            \* the fetch_data invocation in progress (NoFetch when none)
    last_pull,        \* the "last pull" timestamp of each Garmin user
    cursors,          \* the sync cursors, by key "vendor:user" (the dict of the store)
    pulls,            \* the pull requests in progress, by task
    started,          \* the number of resource types pull requests asked for so far
    advanced,         \* the update_cursor call of the step just taken (NoAdvance when none)
    high_water,       \* the highest records_synced each key ever had (history)
    last_reset,       \* the last reset_cursor call no pull request has started after
    supplied,         \* the counts handed to update_cursor since the cursor was created
    tokens,           \* MockTokenStore.tokens: one entry per key "vendor:user"
    refresh,          \* a refresh_if_needed call of another request (NoRefresh when none)
    oauth,            \* the OAuth callback or disconnect being answered (NoOAuth when none)
    admissions        \* RateLimiter: the calls admitted so far, oldest first

vars == <<webhook_secret, now, messages, request, accepted, parsed, pinned,
          fetch, last_pull, cursors, pulls, started, advanced, high_water,
          last_reset, supplied, tokens, refresh, oauth, admissions>>

webhookVars == <<messages, request, accepted>>
parseVars == <<parsed, pinned>>
fetchVars == <<fetch, last_pull>>
cursorVars == <<cursors, pulls, started, advanced, high_water, last_reset, supplied>>
tokenVars == <<tokens, refresh, oauth>>

(***************************************************************************)
(* Bounds of the model.                                                    *)
(***************************************************************************)
MaxNow == 301       \* the clock stops here
MaxQueue == 2       \* deliveries are not explored once the queue holds this many
MaxHeaders == 2     \* signature headers carried by one Garmin request
MaxSynced == 8      \* direct advances stop when records_synced would pass this
MaxTypes == 4       \* resource types asked for by all pull requests of one behaviour
MaxPending == 2     \* resource types waiting in pull requests that run side by side

(***************************************************************************)
(* JSON documents and the Python values they decode to.  A value is a      *)
(* tagged record; Python's None is JNull.                                  *)
(***************************************************************************)
JNull == [t |-> "null"]
JStr(s) == [t |-> "str", s |-> s]
JNum(n) == [t |-> "num", n |-> n]
JArr(a) == [t |-> "arr", a |-> a]
JObj(o) == [t |-> "obj", o |-> o]

EmptyObj == JObj([k \in {} |-> JNull])

\* The result of a Python expression that may raise.
Value(v) == [ok |-> TRUE, exc |-> "", value |-> v]
Throw(e) == [ok |-> FALSE, exc |-> e, value |-> JNull]

\* bool(v)
PyTruthy(v) ==
    CASE v.t = "null" -> FALSE
      [] v.t = "str" -> v.s # ""
      [] v.t = "num" -> v.n # 0
      [] v.t = "arr" -> Len(v.a) > 0
      [] v.t = "obj" -> DOMAIN v.o # {}

\* key in v : "true", "false" or the exception raised.  For a str the test
\* is the substring test; the strings of this model contain a key only
\* when they equal it.
PyContains(v, key) ==
    CASE v.t = "obj" -> IF key \in DOMAIN v.o THEN "true" ELSE "false"
      [] v.t = "arr" -> IF \E i \in 1..Len(v.a) : v.a[i] = JStr(key)
                        THEN "true" ELSE "false"
      [] v.t = "str" -> IF v.s = key THEN "true" ELSE "false"
      [] OTHER -> "TypeError"

\* v[key] for a str key
PyGetItem(v, key) ==
    CASE v.t = "obj" -> IF key \in DOMAIN v.o THEN Value(v.o[key])
                        ELSE Throw("KeyError")
      [] OTHER -> Throw("TypeError")

\* len(v) > 0 : "true", "false" or the exception raised
PyLenPositive(v) ==
    CASE v.t = "arr" -> IF Len(v.a) > 0 THEN "true" ELSE "false"
      [] v.t = "obj" -> IF DOMAIN v.o # {} THEN "true" ELSE "false"
      [] v.t = "str" -> IF v.s # "" THEN "true" ELSE "false"
      [] OTHER -> "TypeError"

\* Mutant: the last element instead of the first.
PyIndexLast(v) ==
    CASE v.t = "arr" -> Value(v.a[Len(v.a)])
      [] v.t = "obj" -> Throw("KeyError")
      [] v.t = "str" -> Value(JStr(v.s))
      [] OTHER -> Throw("TypeError")

\* v[0], evaluated only after len(v) > 0.  The keys of a decoded JSON object
\* are strings, so 0 is never one of them.
PyIndex0(v) ==
    CASE v.t = "arr" -> Value(v.a[1])
      [] v.t = "obj" -> Throw("KeyError")
      [] v.t = "str" -> Value(JStr(v.s))
      [] OTHER -> Throw("TypeError")

\* v.get(key, default)
PyGet(v, key, default) ==
    IF v.t = "obj"
    THEN Value(IF key \in DOMAIN v.o THEN v.o[key] ELSE default)
    ELSE Throw("AttributeError")

\* str.lower() on the dataType strings of the model; every other string of
\* the model is already lower case.
Lower(s) ==
    CASE s = "DAILY" -> "daily"
      [] s = "Sleep" -> "sleep"
      [] OTHER -> s

\* Mutant: the string as it is.
PyNoLower(v) ==
    IF v.t = "str" THEN Value(v) ELSE Throw("AttributeError")

\* v.lower()
PyLower(v) ==
    IF v.t = "str" THEN Value(JStr(Lower(v.s))) ELSE Throw("AttributeError")

(***************************************************************************)
(* Raw request bodies: bytes that decode to a JSON document, bytes that    *)
(* are not JSON, and bytes that are not UTF-8.                             *)
(***************************************************************************)
JsonBody(doc) == [kind |-> "json", doc |-> doc]
NotJson == [kind |-> "text", doc |-> JNull]       \* b"not valid json"
NotUtf8 == [kind |-> "badutf8", doc |-> JNull]    \* b"\xff"

\* json.loads(raw_body)
json_loads(raw_body) ==
    CASE raw_body.kind = "json" -> Value(raw_body.doc)
      [] raw_body.kind = "badutf8" -> Throw("UnicodeDecodeError")
      [] OTHER -> Throw("JSONDecodeError")

(***************************************************************************)
(* GarminConnector.parse_event                                             *)
(***************************************************************************)
NoEvent == [t |-> "null"]

Returned(ev) == [ok |-> TRUE, exc |-> "", msg |-> "", event |-> ev]
Raised(e, m) == [ok |-> FALSE, exc |-> e, msg |-> m, event |-> NoEvent]

MsgInvalidJson == "Invalid JSON payload"
MsgMissingUser == "Missing required field: userId"

\* "<key>" in data and len(data["<key>"]) > 0
Populated(data, key) ==
    LET has == PyContains(data, key)
        got == PyGetItem(data, key)
    IN  IF has # "true" THEN has
        ELSE IF ~got.ok THEN got.exc
        ELSE PyLenPositive(got.value)

\* Mutant: without a resource id the trace id is taken from the clock.
ParseReturnClock(data, event_type, resource_id) ==
    LET user == PyGetItem(data, "userId")
    IN  IF ~user.ok THEN Raised(user.exc, "")
        ELSE Returned([user_id |-> user.value,
                       type |-> event_type,
                       id |-> resource_id,
                       trace_id |-> IF PyTruthy(resource_id) THEN resource_id
                                    ELSE JNum(now),
                       raw_data |-> data])

\* The return statement of parse_event (lines 153-159).
ParseReturn(data, event_type, resource_id) ==
    LET user == PyGetItem(data, "userId")
    IN  IF ~user.ok THEN Raised(user.exc, "")
        ELSE Returned([user_id |-> user.value,
                       type |-> event_type,
                       id |-> resource_id,
                       trace_id |-> IF PyTruthy(resource_id) THEN resource_id
                                    ELSE user.value,
                       raw_data |-> data])

\* The summaries branch (lines 139-141).
ParseSummary(data) ==
    LET first == PyIndex0(data.o["summaries"])
        dt == PyGet(first.value, "dataType", JStr("daily"))
        low == PyLower(dt.value)
        rid == PyGet(first.value, "summaryId", JNull)
    IN  IF ~first.ok THEN Raised(first.exc, "")
        ELSE IF ~dt.ok THEN Raised(dt.exc, "")
        ELSE IF ~low.ok THEN Raised(low.exc, "")
        ELSE ParseReturn(data, JStr(low.value.s \o ".updated"), rid.value)

\* The activities and sleeps branches (lines 144-146, 149-151).
ParseResource(data, key, event_type, idField) ==
    LET first == PyIndex0(data.o[key])
        rid == PyGet(first.value, idField, JNull)
    IN  IF ~first.ok THEN Raised(first.exc, "")
        ELSE IF ~rid.ok THEN Raised(rid.exc, "")
        ELSE ParseReturn(data, JStr(event_type), rid.value)

\* Mutant: a payload without a populated collection is refused.
UnrecognizedRefused(data) == Raised("WebhookError", "No recognized resource collection")

\* No branch was taken: event_type and resource_id keep the values of
\* lines 134-135.
Unrecognized(data) == ParseReturn(data, JStr("unknown"), JNull)

parse_event(raw_body) ==
    LET loaded == json_loads(raw_body)
        data == loaded.value
        hasUser == PyContains(data, "userId")
        s1 == Populated(data, "summaries")
        s2 == Populated(data, "activities")
        s3 == Populated(data, "sleeps")
    IN  IF ~loaded.ok
        THEN IF loaded.exc = "JSONDecodeError"
             THEN Raised("WebhookError", MsgInvalidJson)
             ELSE Raised(loaded.exc, "")
        ELSE IF hasUser # "true"
        THEN IF hasUser = "false"
             THEN Raised("WebhookError", MsgMissingUser)
             ELSE Raised(hasUser, "")
        ELSE IF s1 = "true" THEN ParseSummary(data)
        ELSE IF s1 # "false" THEN Raised(s1, "")
        ELSE IF s2 = "true"
             THEN ParseResource(data, "activities", "activity.updated", "activityId")
        ELSE IF s2 # "false" THEN Raised(s2, "")
        ELSE IF s3 = "true"
             THEN ParseResource(data, "sleeps", "sleep.updated", "sleepId")
        ELSE IF s3 # "false" THEN Raised(s3, "")
        ELSE Unrecognized(data)

(***************************************************************************)
(* The raw bodies parse_event is applied to.                               *)
(***************************************************************************)
\* The object with the given <<key, value>> pairs (keys distinct).
Obj(pairs) ==
    JObj([k \in {p[1] : p \in pairs} |-> (CHOOSE p \in pairs : p[1] = k)[2]])

Field(key, values) == {{}} \cup {{<<key, v>>} : v \in values}

SummaryDaily == Obj({<<"summaryId", JStr("d-1")>>, <<"dataType", JStr("DAILY")>>})
SummaryNoType == Obj({<<"summaryId", JStr("d-2")>>})
SummaryNoId == Obj({<<"dataType", JStr("Sleep")>>})
SummaryBadType == Obj({<<"summaryId", JStr("d-1")>>, <<"dataType", JNum(7)>>})
Activity == Obj({<<"activityId", JStr("a-1")>>})
ActivityZero == Obj({<<"activityId", JNum(0)>>})
Sleep == Obj({<<"sleepId", JStr("s-1")>>})

UserValues == {JStr("u1"), JStr("")}
SummariesValues ==
    { JArr(<<>>), JArr(<<SummaryDaily>>), JArr(<<SummaryNoType>>),
      JArr(<<SummaryNoId, SummaryDaily>>), JArr(<<SummaryBadType>>),
      JArr(<<JNum(1)>>), JNull }
ActivitiesValues == {JArr(<<>>), JArr(<<Activity, ActivityZero>>)}
SleepsValues == {JArr(<<>>), JArr(<<Sleep>>)}

GarminDocs ==
    { Obj(u \cup s \cup a \cup z) :
        u \in Field("userId", UserValues),
        s \in Field("summaries", SummariesValues),
        a \in Field("activities", ActivitiesValues),
        z \in Field("sleeps", SleepsValues) }

\* The scenario of the specification, the flat WHOOP envelope, and documents
\* that are JSON but not a Garmin notification.
ScenarioDoc ==
    Obj({<<"userId", JStr("u1")>>, <<"summaries", JArr(<<SummaryDaily>>)>>})
WhoopDoc ==
    Obj({<<"id", JNum(550)>>, <<"user_id", JNum(10129)>>,
         <<"type", JStr("recovery.updated")>>, <<"trace_id", JStr("e369")>>})
\* Notifications of a user with no populated collection: none of the
\* three keys, or all three with an empty list.
UserOnlyDoc == Obj({<<"userId", JStr("u1")>>})
EmptyCollectionsDoc ==
    Obj({<<"userId", JStr("u1")>>, <<"summaries", JArr(<<>>)>>,
         <<"activities", JArr(<<>>)>>, <<"sleeps", JArr(<<>>)>>})

OtherDocs ==
    { WhoopDoc, JNum(5), JNull, JStr("userId"), JStr("x"),
      JArr(<<JStr("userId")>>), JArr(<<>>),
      Obj({<<"userId", JNull>>}),
      Obj({<<"userId", JStr("u1")>>, <<"activities", JArr(<<ActivityZero>>)>>}),
      Obj({<<"userId", JStr("u1")>>, <<"summaries", EmptyObj>>,
           <<"sleeps", JArr(<<Sleep>>)>>}),
      Obj({<<"userId", JStr("u1")>>, <<"summaries", Obj({<<"a", JNum(1)>>})>>}) }

RawBodies == {JsonBody(d) : d \in GarminDocs \cup OtherDocs} \cup {NotJson, NotUtf8}

(***************************************************************************)
(* Signatures and headers.  The hex digest of HMAC-SHA256 is a term over   *)
(* the key and the signed message: two digests are equal only when key    *)
(* and message are.  A header value is a digest, a timestamp, the empty    *)
(* string, or None when the header is absent.                              *)
(***************************************************************************)
NoPrefix == -1
Message(prefix, raw_body) == [prefix |-> prefix, body |-> raw_body]
Hmac(secret, msg) == [h |-> "hmac-sha256", key |-> secret, msg |-> msg]
EmptyString == [h |-> ""]
NoHeader == [h |-> "None"]
Stamp(n) == [h |-> "timestamp", n |-> n]

\* headers.get(name)
HeaderGet(headers, name) ==
    IF name \in DOMAIN headers THEN headers[name] ELSE NoHeader

\* Mutant: only an absent header counts as missing.
UnusableOnlyNone(value) == value = NoHeader

\* not value
Unusable(value) == value = NoHeader \/ value = EmptyString

\* a or b
PyOr(a, b) == IF Unusable(a) THEN b ELSE a

\* The result of a verification: the value returned, or the error raised.
\* compared records whether the HMAC comparison was reached.
VerifyReturned(v) ==
    [raised |-> FALSE, exc |-> "", msg |-> "", value |-> v, compared |-> TRUE]
VerifyRaised(m, c) ==
    [raised |-> TRUE, exc |-> "WebhookError", msg |-> m, value |-> FALSE, compared |-> c]

MsgNotConfigured == "Webhook verifier not configured"
MsgMissingSignature == "Missing webhook signature header"
MsgHashMismatch == "SHA256 hash mismatch"
MsgSignatureMismatch == "Signature mismatch"
MsgReplayRejected == "Timestamp outside replay window"

ReplayWindow == 300

\* CloudConnectorBase.webhook_verifier: a verifier holding the configured
\* secret, None when no secret is configured.
webhook_verifier(vendor) == webhook_secret[vendor] # ""

\* WebhookVerifier.verify_sha256_hash: simple HMAC over the raw body.
verify_sha256_hash(secret, body, signature) ==
    IF signature = Hmac(secret, Message(NoPrefix, body))
    THEN VerifyReturned(TRUE)
    ELSE VerifyRaised(MsgHashMismatch, TRUE)

\* Mutant: no freshness check.
verify_hmac_sha256_no_window(secret, timestamp, body, signature, clock) ==
    IF signature = Hmac(secret, Message(timestamp.n, body))
    THEN VerifyReturned(TRUE)
    ELSE VerifyRaised(MsgSignatureMismatch, TRUE)

\* WebhookVerifier.verify_hmac_sha256: HMAC over "{timestamp}.{body}" and a
\* freshness check of the timestamp.
verify_hmac_sha256(secret, timestamp, body, signature, clock) ==
    IF clock - timestamp.n > ReplayWindow
    THEN VerifyRaised(MsgReplayRejected, FALSE)
    ELSE IF signature = Hmac(secret, Message(timestamp.n, body))
    THEN VerifyReturned(TRUE)
    ELSE VerifyRaised(MsgSignatureMismatch, TRUE)

(***************************************************************************)
(* GarminConnector.verify_webhook                                          *)
(***************************************************************************)
\* Mutant: the older header is read first, the newer one when it is missing.
SelectSignatureOlderFirst(headers) ==
    LET newer == PyOr(HeaderGet(headers, "Garmin-Signature"),
                      HeaderGet(headers, "garmin-signature"))
        older == PyOr(HeaderGet(headers, "X-Gfit-Signature"),
                      HeaderGet(headers, "x-gfit-signature"))
    IN  IF Unusable(older) THEN newer ELSE older

\* Mutant: only the newer header is read.
SelectSignatureNewOnly(headers) ==
    PyOr(HeaderGet(headers, "Garmin-Signature"), HeaderGet(headers, "garmin-signature"))

\* The signature read from the headers (lines 64-68): the newer header,
\* else the older one.
SelectSignature(headers) ==
    LET newer == PyOr(HeaderGet(headers, "Garmin-Signature"),
                      HeaderGet(headers, "garmin-signature"))
        older == PyOr(HeaderGet(headers, "X-Gfit-Signature"),
                      HeaderGet(headers, "x-gfit-signature"))
    IN  IF Unusable(newer) THEN older ELSE newer

\* Mutant: a failed verification returns False instead of raising.
verify_webhook_returns_false(headers, raw_body) ==
    LET signature == SelectSignature(headers)
    IN  IF ~webhook_verifier("garmin") \/ Unusable(signature)
        THEN VerifyReturned(FALSE)
        ELSE IF signature = Hmac(webhook_secret["garmin"], Message(NoPrefix, raw_body))
        THEN VerifyReturned(TRUE)
        ELSE VerifyReturned(FALSE)

verify_webhook(headers, raw_body) ==
    LET signature == SelectSignature(headers)
    IN  IF ~webhook_verifier("garmin")
        THEN VerifyRaised(MsgNotConfigured, FALSE)
        ELSE IF Unusable(signature)
        THEN VerifyRaised(MsgMissingSignature, FALSE)
        ELSE verify_sha256_hash(webhook_secret["garmin"], raw_body, signature)

(***************************************************************************)
(* The WHOOP connector: timestamped HMAC, and the flat event envelope.     *)
(***************************************************************************)
verify_webhook_whoop(headers, raw_body) ==
    LET signature == HeaderGet(headers, "x-whoop-signature")
        timestamp == HeaderGet(headers, "x-whoop-signature-timestamp")
    IN  IF ~webhook_verifier("whoop")
        THEN VerifyRaised(MsgNotConfigured, FALSE)
        ELSE IF Unusable(signature) \/ Unusable(timestamp)
        THEN VerifyRaised(MsgMissingSignature, FALSE)
        ELSE verify_hmac_sha256(webhook_secret["whoop"], timestamp, raw_body,
                                signature, now)

parse_event_whoop(raw_body) ==
    LET loaded == json_loads(raw_body)
        data == loaded.value
        rid == IF "id" \in DOMAIN data.o THEN data.o["id"] ELSE JNull
    IN  IF ~loaded.ok
        THEN Raised("WebhookError", MsgInvalidJson)
        ELSE IF data.t # "obj" \/ "user_id" \notin DOMAIN data.o
        THEN Raised("WebhookError", "Missing required field: user_id")
        ELSE Returned([user_id |-> data.o["user_id"],
                       type |-> IF "type" \in DOMAIN data.o THEN data.o["type"]
                                ELSE JStr("unknown"),
                       id |-> rid,
                       trace_id |-> IF PyTruthy(rid) THEN rid ELSE data.o["user_id"],
                       raw_data |-> data])

(***************************************************************************)
(* CloudConnectorBase.process_webhook: verify, then parse, then enqueue.   *)
(* A step is reached only when the step before it raised nothing.          *)
(***************************************************************************)
NoParse == Raised("", "")

process_webhook(vendor, headers, raw_body) ==
    LET verified == IF vendor = "garmin" THEN verify_webhook(headers, raw_body)
                    ELSE verify_webhook_whoop(headers, raw_body)
        event_data == IF vendor = "garmin" THEN parse_event(raw_body)
                      ELSE parse_event_whoop(raw_body)
    IN  IF verified.raised
        THEN [verify |-> verified, parsed |-> FALSE, parse |-> NoParse,
              enqueue |-> FALSE, exc |-> verified.exc, msg |-> verified.msg]
        ELSE IF ~event_data.ok
        THEN [verify |-> verified, parsed |-> TRUE, parse |-> event_data,
              enqueue |-> FALSE, exc |-> event_data.exc, msg |-> event_data.msg]
        ELSE [verify |-> verified, parsed |-> TRUE, parse |-> event_data,
              enqueue |-> TRUE, exc |-> "", msg |-> ""]

\* The canonical event put on the queue.
WebhookEvent(vendor, ev) ==
    [vendor |-> vendor, user_id |-> ev.user_id, event_type |-> ev.type,
     resource_id |-> ev.id, trace_id |-> ev.trace_id, raw_payload |-> ev.raw_data]

\* MockJobQueue.enqueue_event
enqueue_event(queue, event, delay_seconds) ==
    Append(queue, [id |-> Len(queue), event |-> event, delay |-> delay_seconds])

(***************************************************************************)
(* The webhook routes: the status each outcome of process_webhook is       *)
(* answered with.  An exception no except clause catches is answered 500   *)
(* by the framework.                                                       *)
(***************************************************************************)
CloudConnectorErrors ==
    {"CloudConnectorError", "WebhookError", "OAuthError", "RateLimitError"}

\* Mutant: the except clauses in the other order.
webhook_handler_garmin_swapped(outcome) ==
    IF outcome.exc = "" THEN [status |-> 200, structured |-> TRUE]
    ELSE IF outcome.exc \in CloudConnectorErrors
    THEN [status |-> 500, structured |-> TRUE]
    ELSE [status |-> 500, structured |-> FALSE]

\* api_local.py, POST /v1/webhooks/garmin
webhook_handler_garmin(outcome) ==
    IF outcome.exc = "" THEN [status |-> 200, structured |-> TRUE]
    ELSE IF outcome.exc = "WebhookError" THEN [status |-> 400, structured |-> TRUE]
    ELSE IF outcome.exc \in CloudConnectorErrors
    THEN [status |-> 500, structured |-> TRUE]
    ELSE [status |-> 500, structured |-> FALSE]

\* api.py, POST /v1/webhooks/whoop
webhook_handler_whoop(outcome) ==
    IF outcome.exc = "" THEN [status |-> 204, structured |-> TRUE]
    ELSE IF outcome.exc = "WebhookError" THEN [status |-> 400, structured |-> TRUE]
    ELSE IF outcome.exc \in CloudConnectorErrors
    THEN [status |-> 500, structured |-> TRUE]
    ELSE [status |-> 500, structured |-> FALSE]

(***************************************************************************)
(* The deliveries explored: a few bodies, and for each the signatures a    *)
(* sender may present: the right one, one made with another key, one made  *)
(* for another body or another timestamp, and the empty string.            *)
(***************************************************************************)
ServerSecret == "k1"
OtherSecret == "k2"

WebhookBodies ==
    {JsonBody(ScenarioDoc), JsonBody(WhoopDoc), JsonBody(JNum(5)),
     JsonBody(UserOnlyDoc), JsonBody(EmptyCollectionsDoc)}

OtherBody(raw_body) ==
    IF raw_body = JsonBody(ScenarioDoc) THEN JsonBody(WhoopDoc)
    ELSE JsonBody(ScenarioDoc)

GarminHeaderNames ==
    {"Garmin-Signature", "garmin-signature", "X-Gfit-Signature", "x-gfit-signature"}

GarminSignatures(raw_body) ==
    { EmptyString,
      Hmac(ServerSecret, Message(NoPrefix, raw_body)),
      Hmac(OtherSecret, Message(NoPrefix, raw_body)),
      Hmac(ServerSecret, Message(NoPrefix, OtherBody(raw_body))) }

GarminHeaders(raw_body) ==
    UNION { [names -> GarminSignatures(raw_body)] :
              names \in {n \in SUBSET GarminHeaderNames : Cardinality(n) <= MaxHeaders} }

Stamps == {0, ReplayWindow}

WhoopSignatures(raw_body) ==
    {EmptyString} \cup
    { Hmac(k, Message(t, b)) :
        k \in {ServerSecret, OtherSecret}, t \in Stamps,
        b \in {raw_body, OtherBody(raw_body)} }

WhoopHeaders(raw_body) ==
    { sig @@ ts :
        sig \in {<<>>} \cup {("x-whoop-signature" :> v) : v \in WhoopSignatures(raw_body)},
        ts \in {<<>>} \cup {("x-whoop-signature-timestamp" :> Stamp(t)) : t \in Stamps} }

(***************************************************************************)
(* GarminConnector.fetch_data.  The invocation suspends at its two awaits  *)
(* (refresh_if_needed, the HTTP request); what runs between two            *)
(* suspensions is one step.                                                *)
(***************************************************************************)
Users == {"u1", "u2"}

\* CloudConnectorBase.check_rate_limit: returns when the call is admitted,
\* raises RateLimitError when the local limiter is exceeded.
check_rate_limit(admitted) ==
    IF admitted THEN Value(JNull) ELSE Throw("RateLimitError")

(***************************************************************************)
(* RateLimiter, configured once for the vendor of the service with         *)
(* RateLimitConfig(max_requests, time_window, max_burst).  The limiter     *)
(* keeps the calls it admitted; the count is per vendor, whichever user    *)
(* calls.  A call that finds fewer than max_requests admissions in the     *)
(* last time_window seconds is admitted, one that finds max_burst is       *)
(* refused, and in between the call is part of a burst that the limiter    *)
(* may admit or throttle.  An admission exactly time_window seconds old    *)
(* may or may not have left the window.                                    *)
(***************************************************************************)
max_requests == 2    \* RateLimitConfig.max_requests, scaled down
max_burst == 3       \* RateLimitConfig.max_burst, scaled down
time_window == 60    \* RateLimitConfig.time_window, in seconds

\* The admissions less than time_window seconds old, and those exactly that old.
Recent(log, clock) == {i \in DOMAIN log : clock - log[i].at < time_window}
AtEdge(log, clock) == {i \in DOMAIN log : clock - log[i].at = time_window}

Admission(log, user_id, clock, sure, maybe) ==
    {[admitted |-> TRUE, log |-> Append(log, [at |-> clock, user_id |-> user_id])] :
        x \in IF sure < max_burst THEN {1} ELSE {}}
    \cup {[admitted |-> FALSE, log |-> log] :
        x \in IF maybe >= max_requests THEN {1} ELSE {}}

\* Mutant: the admissions are counted per user.
check_and_admit_per_user(log, user_id, clock) ==
    LET own == {i \in DOMAIN log : log[i].user_id = user_id}
        sure == Cardinality(Recent(log, clock) \cap own)
    IN  Admission(log, user_id, clock, sure,
                  sure + Cardinality(AtEdge(log, clock) \cap own))

\* RateLimiter.check_and_admit: the outcomes of one call.
check_and_admit(log, user_id, clock) ==
    LET sure == Cardinality(Recent(log, clock))
    IN  Admission(log, user_id, clock, sure, sure + Cardinality(AtEdge(log, clock)))

\* int(v) for the value of a header (a str) or the default (an int).
IntLiterals == {"0", "30", "120"}
IntOf(s) == CASE s = "0" -> 0 [] s = "30" -> 30 [] s = "120" -> 120

PyInt(v) ==
    CASE v.t = "num" -> Value(v.n)
      [] v.t = "str" -> IF v.s \in IntLiterals THEN Value(IntOf(v.s))
                        ELSE Throw("ValueError")
      [] OTHER -> Throw("TypeError")

\* response.headers.get("Retry-After", 60)
DefaultRetryAfter == 60

\* The retry_after the local limiter's RateLimitError carries.
LocalRetryAfter == 1

\* The vendor's response: status code, Retry-After header (JNull when
\* absent) and body.
Response(status_code, retry_after, body) ==
    [status_code |-> status_code, retry_after |-> retry_after, body |-> body]

HttpDate == JStr("Wed, 21 Oct 2015 07:28:00 GMT")

StatusCodes == {200, 201, 204, 302, 404, 429, 500, 503}
RetryAfterHeaders == {JNull, JStr("0"), JStr("30"), JStr("120"), HttpDate}
ResponseBodies == {JsonBody(JArr(<<SummaryDaily>>)), JsonBody(EmptyObj), NotJson}

Responses ==
    { Response(c, r, b) :
        c \in StatusCodes, r \in RetryAfterHeaders, b \in ResponseBodies }

\* How an invocation ends: the value returned or the error raised, with the
\* error's status_code / retry_after attributes (JNull when it has none),
\* and whether update_last_pull was called on the way.
FetchReturned(value, recorded) ==
    [raised |-> FALSE, exc |-> "", status_code |-> JNull, retry_after |-> JNull,
     value |-> value, recorded |-> recorded]
FetchRaised(exc, status_code, retry_after, recorded) ==
    [raised |-> TRUE, exc |-> exc, status_code |-> status_code,
     retry_after |-> retry_after, value |-> JNull, recorded |-> recorded]

\* Mutant: the pull is recorded before the status is looked at.
classify_response_recording(response) ==
    IF response.status_code = 200
    THEN FetchReturned(response.body.doc, TRUE)
    ELSE FetchRaised("VendorAPIError", JNum(response.status_code), JNull, TRUE)

\* Lines 209-236: what fetch_data does with the response.
classify_response(response) ==
    IF response.status_code = 429
    THEN LET retry_after ==
                 PyInt(IF response.retry_after = JNull THEN JNum(DefaultRetryAfter)
                       ELSE response.retry_after)
         IN  IF retry_after.ok
             THEN FetchRaised("RateLimitError", JNull, JNum(retry_after.value), FALSE)
             ELSE FetchRaised(retry_after.exc, JNull, JNull, FALSE)
    ELSE IF response.status_code = 204
    THEN FetchReturned(JArr(<<>>), FALSE)
    ELSE IF response.status_code # 200
    THEN FetchRaised("VendorAPIError", JNum(response.status_code), JNull, FALSE)
    ELSE LET decoded == json_loads(response.body)
         IN  IF decoded.ok THEN FetchReturned(decoded.value, TRUE)
             ELSE FetchRaised(decoded.exc, JNull, JNull, TRUE)

\* MockTokenStore.update_last_pull, as the token store of the library
\* records it: the time of the call.
update_last_pull(store, user_id) == [store EXCEPT ![user_id] = JNum(now)]

\* Mutant: the except clauses of the route in the other order.
fetch_dailies_swapped(result) ==
    IF ~result.raised THEN 200 ELSE 500

\* The data fetch routes (api_local.py 427-472, api.py 295-465): the status
\* the outcome of the connector call is answered with.  RateLimitError is
\* caught before CloudConnectorError; an exception neither clause catches
\* is answered 500 by the framework.
fetch_dailies(result) ==
    IF ~result.raised THEN 200
    ELSE IF result.exc = "RateLimitError" THEN 429
    ELSE IF result.exc \in CloudConnectorErrors \cup {"VendorAPIError"} THEN 500
    ELSE 500

\* The invocation with the status its route answers once it has ended.
Routed(f) == [f EXCEPT !.status = IF f.pc = "done" THEN fetch_dailies(f.result) ELSE 0]

\* Mutant: the outcome of the admission is not looked at.
AfterAdmissionIgnored(admission) == "refreshing"

\* Where the invocation goes after check_rate_limit (lines 186-190).
AfterAdmission(admission) == IF admission.ok THEN "refreshing" ELSE "done"

\* Where it goes after refresh_if_needed (lines 190-202).
AfterRefresh(held) == IF held.ok THEN "requesting" ELSE "done"

\* Mutant: a 429 of the vendor is followed by another request.
AfterResponseRetrying(result) ==
    IF result.raised /\ result.exc = "RateLimitError" THEN "requesting" ELSE "done"

\* Where it goes once the response is classified (lines 207-236): every
\* branch returns or raises; nothing loops back to the request.
AfterResponse(result) == "done"

(***************************************************************************)
(* The sync cursor store (MockSyncState).  A timestamp is the ISO-8601     *)
(* text of an instant; texts of one clock compare as their instants do.    *)
(***************************************************************************)
Iso(t) == [t |-> "iso", at |-> t]

\* Mutant: the key is the user id alone.
CursorKeyOfUser(vendor, user_id) == user_id

\* f"{vendor.value}:{user_id}"
CursorKey(vendor, user_id) == vendor \o ":" \o user_id

NoCursor == [vendor |-> "none"]

SyncCursor(vendor, user_id, last_sync_ts, records_synced, last_resource_id, created_at, updated_at) ==
    [vendor |-> vendor, user_id |-> user_id, last_sync_ts |-> last_sync_ts,
     records_synced |-> records_synced, last_resource_id |-> last_resource_id,
     created_at |-> created_at, updated_at |-> updated_at]

\* self.cursors.get(key)
get_cursor(store, vendor, user_id) ==
    IF CursorKey(vendor, user_id) \in DOMAIN store
    THEN store[CursorKey(vendor, user_id)] ELSE NoCursor

\* store[key] = value
DictSet(store, key, value) ==
    [k \in DOMAIN store \cup {key} |-> IF k = key THEN value ELSE store[k]]

\* del store[key]
DictDel(store, key) == [k \in DOMAIN store \ {key} |-> store[k]]

\* Mutant: the supplied count replaces the stored one.
update_cursor_overwriting(store, vendor, user_id, last_sync_ts, records_synced, last_resource_id) ==
    LET existing == get_cursor(store, vendor, user_id)
    IN  SyncCursor(vendor, user_id, last_sync_ts, records_synced, last_resource_id,
                   IF existing # NoCursor THEN existing.created_at ELSE Iso(now),
                   Iso(now))

\* Mutant: every call stamps created_at.
update_cursor_recreating(store, vendor, user_id, last_sync_ts, records_synced, last_resource_id) ==
    LET existing == get_cursor(store, vendor, user_id)
    IN  SyncCursor(vendor, user_id, last_sync_ts,
                   (IF existing # NoCursor THEN existing.records_synced ELSE 0)
                       + records_synced,
                   last_resource_id, Iso(now), Iso(now))

\* Mutant: last_sync_ts is the time of the call.
update_cursor_stamping(store, vendor, user_id, last_sync_ts, records_synced, last_resource_id) ==
    LET existing == get_cursor(store, vendor, user_id)
    IN  SyncCursor(vendor, user_id, Iso(now),
                   (IF existing # NoCursor THEN existing.records_synced ELSE 0)
                       + records_synced,
                   last_resource_id,
                   IF existing # NoCursor THEN existing.created_at ELSE Iso(now),
                   Iso(now))

\* MockSyncState.update_cursor: the cursor it stores and returns.
update_cursor(store, vendor, user_id, last_sync_ts, records_synced, last_resource_id) ==
    LET existing == get_cursor(store, vendor, user_id)
        total_records ==
            (IF existing # NoCursor THEN existing.records_synced ELSE 0)
                + records_synced
    IN  SyncCursor(vendor, user_id, last_sync_ts, total_records, last_resource_id,
                   IF existing # NoCursor THEN existing.created_at ELSE Iso(now),
                   Iso(now))

\* MockSyncState.reset_cursor
reset_cursor(store, vendor, user_id) ==
    IF CursorKey(vendor, user_id) \in DOMAIN store
    THEN DictDel(store, CursorKey(vendor, user_id)) ELSE store

(***************************************************************************)
(* pull_data of the WHOOP API (api.py 473-573).  Its sync_state has the    *)
(* interface of MockSyncState; the collection fetches are calls of the     *)
(* WHOOP connector, of which only the outcome matters here.                *)
(***************************************************************************)
AllResourceTypes == <<"recovery", "sleep", "workout", "cycle">>
KnownResourceTypes == {"recovery", "sleep", "workout", "cycle"}

\* The resource_types parameter; <<>> is both None and the empty list.
ResourceTypeParams ==
    {<<>>, <<"sleep">>, <<"sleep", "sleep">>, <<"recovery", "bogus">>, <<"bogus">>}

\* The since parameter: absent, empty, or an ISO-8601 text.
ExplicitSince == Iso(100)
SinceParams == {JNull, JStr(""), ExplicitSince}

\* not since
NotSince(since) == since = JNull \/ since = JStr("")

\* timedelta(days=7), in seconds
SevenDays == 604800

\* Mutant: an existing cursor wins over the since parameter.
ResolveStartCursorFirst(store, user_id, since) ==
    LET cursor == get_cursor(store, "whoop", user_id)
    IN  IF cursor # NoCursor
        THEN [since |-> cursor.last_sync_ts, pull_type |-> "incremental"]
        ELSE IF NotSince(since)
        THEN [since |-> Iso(now - SevenDays), pull_type |-> "initial"]
        ELSE [since |-> since, pull_type |-> "manual"]

\* Lines 504-517: the start point of the pull and the kind of pull.
ResolveStart(store, user_id, since) ==
    IF NotSince(since)
    THEN LET cursor == get_cursor(store, "whoop", user_id)
         IN  IF cursor # NoCursor
             THEN [since |-> cursor.last_sync_ts, pull_type |-> "incremental"]
             ELSE [since |-> Iso(now - SevenDays), pull_type |-> "initial"]
    ELSE [since |-> since, pull_type |-> "manual"]

\* How a collection fetch ends: data with n records, or an exception.
RecordCounts == {2}
CaughtErrors == {"RateLimitError", "VendorAPIError"}
FetchOutcomes ==
    { [kind |-> "records", n |-> n] : n \in RecordCounts } \cup
    { [kind |-> e, n |-> 0] : e \in CaughtErrors \cup {"ConnectError"} }

\* An entry of results.
RecordsEntry(n) == [kind |-> "records", records |-> n, error |-> ""]
ErrorEntry(text) == [kind |-> "error", records |-> 0, error |-> text]

NoPull == [pc |-> "none"]
NoPullResponse == [status |-> "none"]

\* Lines 559-568.
PullResponse(pull) ==
    [status |-> "success", vendor |-> "whoop", user_id |-> pull.user_id,
     pull_type |-> pull.pull_type, since |-> pull.since, pulled_at |-> pull.now,
     total_records |-> pull.total_records, results |-> pull.results]

\* Lines 570-573: the status an exception that left the try body is
\* answered with; one that neither clause catches is answered 500 by the
\* framework.
pull_data_raised(exc) == IF exc = "RateLimitError" THEN 429 ELSE 500

\* Mutant: an error of one fetch ends the pull.
handle_fetch_aborting(pull, outcome) ==
    LET resource_type == Head(pull.todo)
        attempted == [pull EXCEPT !.todo = Tail(@),
                                  !.attempts = Append(@, <<resource_type, outcome>>)]
    IN  IF outcome.kind = "records"
        THEN [attempted EXCEPT
                !.total_records = @ + outcome.n,
                !.results = DictSet(@, resource_type, RecordsEntry(outcome.n))]
        ELSE [attempted EXCEPT !.pc = "failed",
                               !.http = pull_data_raised(outcome.kind)]

\* Lines 525-549 for a known resource type: the fetch has ended.
handle_fetch(pull, outcome) ==
    LET resource_type == Head(pull.todo)
        attempted == [pull EXCEPT !.todo = Tail(@),
                                  !.attempts = Append(@, <<resource_type, outcome>>)]
    IN  IF outcome.kind = "records"
        THEN [attempted EXCEPT
                !.total_records = @ + outcome.n,
                !.results = DictSet(@, resource_type, RecordsEntry(outcome.n))]
        ELSE IF outcome.kind \in CaughtErrors
        THEN [attempted EXCEPT
                !.results = DictSet(@, resource_type, ErrorEntry(outcome.kind))]
        ELSE [attempted EXCEPT !.pc = "failed",
                               !.http = pull_data_raised(outcome.kind)]

\* Lines 524-536: the loop runs on over unknown resource types, which are
\* not fetched, up to the next fetch or the end of the list.
RECURSIVE skip_unknown(_)
skip_unknown(pull) ==
    IF pull.pc = "failed" \/ pull.todo = <<>>
       \/ Head(pull.todo) \in KnownResourceTypes
    THEN pull
    ELSE skip_unknown([pull EXCEPT
            !.todo = Tail(@),
            !.results = DictSet(@, Head(pull.todo),
                                ErrorEntry("Unknown resource type"))])

(***************************************************************************)
(* The token store (MockTokenStore).  The dict self.tokens is the set of   *)
(* its entries, an entry being a key and the OAuthTokens stored under it;  *)
(* an assignment to a key takes the place of the entry the key had.        *)
(***************************************************************************)
OAuthTokens(access_token, refresh_token, expires_in, expires_at, scopes) ==
    [access_token |-> access_token, refresh_token |-> refresh_token,
     expires_in |-> expires_in, expires_at |-> expires_at, scopes |-> scopes]

\* None, where tokens are expected.
NoTokens == [access_token |-> "none"]

\* self.tokens.get(key)
get_tokens(store, vendor, user_id) ==
    LET found == {e \in store : e.key = CursorKey(vendor, user_id)}
    IN  IF found = {} THEN NoTokens ELSE (CHOOSE e \in found : TRUE).tokens

\* Mutant: the entry is added and the one the key had is kept.
save_tokens_keeping(store, vendor, user_id, held) ==
    store \cup {[key |-> CursorKey(vendor, user_id), tokens |-> held]}

\* MockTokenStore.save_tokens: self.tokens[key] = tokens
save_tokens(store, vendor, user_id, held) ==
    {e \in store : e.key # CursorKey(vendor, user_id)}
        \cup {[key |-> CursorKey(vendor, user_id), tokens |-> held]}

\* Mutant: nothing is deleted.
revoke_tokens_keeping(store, vendor, user_id) == store

\* MockTokenStore.revoke_tokens: the store it leaves; it raises nothing.
revoke_tokens(store, vendor, user_id) ==
    IF \E e \in store : e.key = CursorKey(vendor, user_id)
    THEN {e \in store : e.key # CursorKey(vendor, user_id)}
    ELSE store

(***************************************************************************)
(* What the vendor's token endpoint grants: a pair of secrets, a lifetime  *)
(* in seconds, and the scopes of the vendor's configuration.               *)
(***************************************************************************)
Secrets == {<<"access-1", "refresh-1">>, <<"access-2", "refresh-2">>}
Lifetimes == {30, 3600}

Scopes(vendor) ==
    IF vendor = "garmin" THEN <<"wellness">>
    ELSE <<"read:recovery", "read:sleep", "read:workout", "read:cycles", "read:profile">>

Grant(vendor, secret, expires_in) ==
    OAuthTokens(secret[1], secret[2], expires_in, now + expires_in, Scopes(vendor))

\* The answers to an authorization-code exchange: tokens, or a refusal.
ExchangeAnswers(vendor) ==
    {Value(Grant(vendor, s, l)) : s \in Secrets, l \in Lifetimes}
        \cup {Throw("OAuthError")}

\* The answers to a refresh-token exchange: other secrets, or a refusal.
RefreshAnswers(vendor, held) ==
    {Value(Grant(vendor, s, 3600)) : s \in {x \in Secrets : x[1] # held.access_token}}
        \cup {Throw("OAuthError")}

(***************************************************************************)
(* The token operations of CloudConnectorBase.  Each gives the store it    *)
(* leaves and what it returns or raises.                                   *)
(***************************************************************************)
\* exchange_code: the tokens granted are saved under (vendor, user_id) and
\* returned; a refusal raises OAuthError.
exchange_code(store, vendor, user_id, answer) ==
    [store |-> IF answer.ok THEN save_tokens(store, vendor, user_id, answer.value)
               ELSE store,
     result |-> answer]

\* The safety margin of refresh_if_needed, in seconds.
SafetyMargin == 60

\* Whether refresh_if_needed refreshes tokens: it does when they expire
\* within the margin and does not when they expire after it; tokens that
\* expire exactly at the margin may be taken either way.
NeedsRefresh(held, clock) ==
    IF held.expires_at - clock < SafetyMargin THEN {TRUE}
    ELSE IF held.expires_at - clock = SafetyMargin THEN {TRUE, FALSE}
    ELSE {FALSE}

\* The end of refresh_if_needed once the refresh-token exchange is answered.
Refreshed(store, vendor, user_id, answer) ==
    [store |-> IF answer.ok THEN save_tokens(store, vendor, user_id, answer.value)
               ELSE store,
     result |-> answer, exchanged |-> TRUE]

\* Mutant: tokens are refreshed whenever they are read.
refresh_if_needed_always(store, vendor, user_id) ==
    LET held == get_tokens(store, vendor, user_id)
    IN  IF held = NoTokens
        THEN {[store |-> store, result |-> Throw("NotConnected"), exchanged |-> FALSE]}
        ELSE {Refreshed(store, vendor, user_id, answer) :
                 answer \in RefreshAnswers(vendor, held)}

\* Mutant: a user without tokens is given empty ones.
refresh_if_needed_unbound(store, vendor, user_id) ==
    LET held == get_tokens(store, vendor, user_id)
    IN  IF held = NoTokens
        THEN {[store |-> store, result |-> Value(NoTokens), exchanged |-> FALSE]}
        ELSE UNION {IF needed
                    THEN {Refreshed(store, vendor, user_id, answer) :
                             answer \in RefreshAnswers(vendor, held)}
                    ELSE {[store |-> store, result |-> Value(held),
                           exchanged |-> FALSE]} :
                    needed \in NeedsRefresh(held, now)}

\* refresh_if_needed from its call to its return, as one step: the ways it
\* can end for what the store holds.
refresh_if_needed(store, vendor, user_id) ==
    LET held == get_tokens(store, vendor, user_id)
    IN  IF held = NoTokens
        THEN {[store |-> store, result |-> Throw("NotConnected"), exchanged |-> FALSE]}
        ELSE UNION {IF needed
                    THEN {Refreshed(store, vendor, user_id, answer) :
                             answer \in RefreshAnswers(vendor, held)}
                    ELSE {[store |-> store, result |-> Value(held),
                           exchanged |-> FALSE]} :
                    needed \in NeedsRefresh(held, now)}

\* revoke_tokens: the stored record is deleted; a user without one is not
\* an error.
connector_revoke_tokens(store, vendor, user_id) ==
    [store |-> revoke_tokens(store, vendor, user_id), result |-> Value(JNull)]

(***************************************************************************)
(* The OAuth routes: what each answers.                                    *)
(***************************************************************************)
Answer(status, body) == [status |-> status, body |-> body]

\* The detail of an HTTPException: a dict with an "error" object holding
\* the named keys, or a plain string.
ErrorDict(keys, code) == [shape |-> "dict", keys |-> keys, code |-> code]
ErrorText(text) == [shape |-> "str", keys |-> {}, code |-> text]

\* CloudConnectorError.to_dict(): code, message and vendor.
to_dict(vendor, exc) == ErrorDict({"code", "message", "vendor"}, exc)

\* Mutant: the access token is part of the response.
oauth_callback_leaking(vendor, user_id, usable, result) ==
    IF result.ok
    THEN Answer(200, [status |-> "success", vendor |-> vendor, user_id |-> user_id,
                      expires_in |-> result.value.expires_in,
                      scopes |-> result.value.scopes,
                      access_token |-> result.value.access_token])
    ELSE Answer(500, ErrorText(result.exc))

\* Mutant: a refused exchange is answered as a success.
oauth_callback_swallowing(vendor, user_id, usable, result) ==
    IF ~usable THEN Answer(400, ErrorDict({"code", "message"}, "invalid_request"))
    ELSE IF result.ok \/ result.exc = "OAuthError"
    THEN Answer(200, [status |-> "success", vendor |-> vendor, user_id |-> user_id])
    ELSE Answer(500, ErrorText(result.exc))

\* oauth_callback_get of api.py and of api_local.py.  usable: the request
\* can be exchanged (WHOOP: WHOOP_REDIRECT_URI is set).
oauth_callback(vendor, user_id, usable, result) ==
    IF ~usable THEN Answer(400, ErrorDict({"code", "message"}, "invalid_request"))
    ELSE IF result.ok
    THEN Answer(200,
                IF vendor = "garmin"
                THEN [status |-> "success", vendor |-> "garmin", user_id |-> user_id,
                      expires_in |-> result.value.expires_in,
                      scopes |-> result.value.scopes,
                      note |-> "Real Garmin tokens obtained and saved"]
                ELSE [status |-> "success", vendor |-> "whoop", user_id |-> user_id,
                      expires_in |-> result.value.expires_in,
                      scopes |-> result.value.scopes])
    ELSE IF result.exc = "OAuthError" THEN Answer(401, to_dict(vendor, result.exc))
    ELSE IF vendor = "garmin" THEN Answer(500, ErrorText(result.exc))
    ELSE Answer(500, to_dict(vendor, result.exc))

\* oauth_callback_post of api.py.  usable: code, state and redirect_uri
\* are all in the posted body.
oauth_callback_post(vendor, user_id, usable, result) ==
    IF ~usable
    THEN Answer(400, ErrorDict({"code", "message", "vendor"}, "invalid_request"))
    ELSE oauth_callback(vendor, user_id, TRUE, result)

\* disconnect_user of api.py and of api_local.py.
disconnect_user(vendor, user_id, result) ==
    IF result.ok
    THEN Answer(200,
                IF vendor = "garmin"
                THEN [status |-> "disconnected", vendor |-> "garmin", user_id |-> user_id]
                ELSE [status |-> "disconnected", vendor |-> "whoop", user_id |-> user_id,
                      revoked_at |-> JNull])
    ELSE IF vendor = "garmin" THEN Answer(500, ErrorText(result.exc))
    ELSE IF result.exc = "NotFound"
    THEN Answer(404, ErrorDict({"code", "message", "vendor"}, "not_found"))
    ELSE Answer(500, to_dict(vendor, result.exc))

(***************************************************************************)
(* What a webhook request does to the cursor store.  The webhook routes    *)
(* and the connector hold no reference to sync_state: the store is left    *)
(* as it was, whatever process_webhook did.                                *)
(***************************************************************************)
\* Mutant: an accepted delivery advances the cursor of its vendor.
webhook_cursors_advancing(store, vendor, outcome) ==
    IF outcome.enqueue
    THEN DictSet(store, CursorKey(vendor, "u1"),
                 update_cursor(store, vendor, "u1", Iso(now), 1, JNull))
    ELSE store

webhook_cursors(store, vendor, outcome) == store

(***************************************************************************)
(* State.                                                                  *)
(***************************************************************************)
Vendors == {"garmin", "whoop"}

NoRequest == [vendor |-> "none"]
NoCall == [body |-> NotJson, at |-> -1]
NoFetch == [pc |-> "none"]
NoAdvance == [key |-> "none"]
NoReset == [key |-> "none", existed |-> FALSE]
NoRefresh == [pc |-> "none"]
NoOAuth == [op |-> "none"]
\* What tokens.json may hold when the service starts: nothing, or tokens of
\* u1 that expire soon or late.
InitialStores ==
    {{}} \cup {{[key |-> CursorKey("garmin", "u1"),
                 tokens |-> OAuthTokens("access-1", "refresh-1", l, l, Scopes("garmin"))]} :
               l \in {30, 3600}}
Tasks == {1, 2}      \* a second request is the one that finds task 1 busy
PullUsers == {"u1"}
CursorKeys == {CursorKey(v, u) : v \in Vendors, u \in Users}
NoResponse == Response(0, JNull, NotJson)
NoResult == FetchReturned(JNull, FALSE)

\* The cursors the WHOOP service may find in its table when it starts: none,
\* or the cursor an earlier run left.
InitialCursors ==
    {<<>>, CursorKey("whoop", "u1") :>
               SyncCursor("whoop", "u1", Iso(0), 5, JNull, Iso(0), Iso(0))}

\* The state after construction, with what the token store loaded and the
\* cursors found.
InitWith(store, found) ==
    /\ webhook_secret \in {[v \in Vendors |-> s] : s \in {"", ServerSecret}}
    /\ now = 0
    /\ messages = <<>>
    /\ request = NoRequest
    /\ accepted = {}
    /\ parsed = NoCall
    /\ pinned = NoCall
    /\ fetch = NoFetch
    /\ last_pull = [u \in Users |-> JNull]
    /\ cursors = found
    /\ pulls = [p \in Tasks |-> NoPull]
    /\ started = 0
    /\ advanced = NoAdvance
    /\ high_water = [k \in CursorKeys |->
                        IF k \in DOMAIN found THEN found[k].records_synced ELSE 0]
    /\ last_reset = NoReset
    /\ supplied = high_water
    /\ tokens = store
    /\ refresh = NoRefresh
    /\ oauth = NoOAuth
    /\ admissions = <<>>

Init == InitWith({}, <<>>)

\* No response is being sent.
Answered(p) == pulls[p] # NoPull /\ pulls[p].pc # "fetching"

Idle ==
    /\ request = NoRequest
    /\ parsed = NoCall
    /\ \A p \in Tasks : ~Answered(p)
    /\ fetch.pc # "done"
    /\ refresh.pc # "done"
    /\ oauth = NoOAuth

(***************************************************************************)
(* The clock.  Time passes between requests, by the replay window or by    *)
(* one second more.                                                        *)
(***************************************************************************)

Tick ==
    /\ Idle
    /\ \E d \in {ReplayWindow, ReplayWindow + 1} :
          /\ now + d <= MaxNow
          /\ now' = now + d
    /\ advanced' = NoAdvance
    /\ UNCHANGED <<tokenVars, webhook_secret, admissions, webhookVars, parseVars, fetchVars,
                   cursors, pulls, started, high_water, last_reset, supplied>>

(***************************************************************************)
(* One webhook request, from its arrival to its response.  request keeps   *)
(* what arrived and what the handler did with it until the response is     *)
(* sent.  An accepted delivery is explored only while the queue has room.  *)
(***************************************************************************)
Handled(vendor, headers, raw_body, outcome, response) ==
    [vendor |-> vendor, headers |-> headers, body |-> raw_body, at |-> now,
     queued_before |-> Len(messages),
     verify |-> outcome.verify, parsed |-> outcome.parsed,
     enqueued |-> outcome.enqueue, exc |-> outcome.exc, msg |-> outcome.msg,
     status |-> response.status, structured |-> response.structured]

Enqueued(vendor, outcome) ==
    IF outcome.enqueue
    THEN enqueue_event(messages, WebhookEvent(vendor, outcome.parse.event), 0)
    ELSE messages

WebhookGarmin ==
    /\ Idle
    /\ \E raw_body \in WebhookBodies :
       \E headers \in GarminHeaders(raw_body) :
          LET outcome == process_webhook("garmin", headers, raw_body)
          IN  /\ outcome.enqueue => Len(messages) < MaxQueue
              /\ messages' = Enqueued("garmin", outcome)
              /\ request' = Handled("garmin", headers, raw_body, outcome,
                                    webhook_handler_garmin(outcome))
              /\ cursors' = webhook_cursors(cursors, "garmin", outcome)
    /\ UNCHANGED <<tokenVars, webhook_secret, admissions, now, accepted, parseVars, fetchVars,
                   pulls, started, advanced, high_water, last_reset, supplied>>

WebhookWhoop ==
    /\ Idle
    /\ \E raw_body \in WebhookBodies :
       \E headers \in WhoopHeaders(raw_body) :
          LET outcome == process_webhook("whoop", headers, raw_body)
          IN  /\ outcome.enqueue => Len(messages) < MaxQueue
              /\ messages' = Enqueued("whoop", outcome)
              /\ request' = Handled("whoop", headers, raw_body, outcome,
                                    webhook_handler_whoop(outcome))
              /\ accepted' = IF outcome.enqueue
                             THEN accepted \cup {[headers |-> headers, body |-> raw_body]}
                             ELSE accepted
              /\ cursors' = webhook_cursors(cursors, "whoop", outcome)
    /\ UNCHANGED <<tokenVars, webhook_secret, admissions, now, parseVars, fetchVars,
                   pulls, started, advanced, high_water, last_reset, supplied>>

\* The response is sent.
Respond ==
    /\ request # NoRequest
    /\ request' = NoRequest
    /\ UNCHANGED <<tokenVars, webhook_secret, admissions, now, messages, accepted, parseVars, fetchVars, cursorVars>>

Next == Tick \/ WebhookGarmin \/ WebhookWhoop \/ Respond

Spec == Init /\ [][Next]_vars

\* The WHOOP service with the cursors of its table.
InitPush ==
    /\ \E found \in InitialCursors : InitWith({}, found)
    /\ webhook_secret["whoop"] = ServerSecret

SpecPush == InitPush /\ [][Next]_vars

(***************************************************************************)
(* Direct invocations of GarminConnector.parse_event.                      *)
(***************************************************************************)
ParseEvent ==
    /\ Idle
    /\ \E raw_body \in RawBodies :
          parsed' = [body |-> raw_body, at |-> now, result |-> parse_event(raw_body)]
    /\ UNCHANGED <<tokenVars, webhook_secret, admissions, now, webhookVars, pinned, fetchVars, cursorVars>>

\* The invocation returned; it is kept for comparison or dropped.
Pin ==
    /\ parsed # NoCall
    /\ pinned = NoCall
    /\ pinned' = parsed
    /\ parsed' = NoCall
    /\ UNCHANGED <<tokenVars, webhook_secret, admissions, now, webhookVars, fetchVars, cursorVars>>

Forget ==
    /\ parsed # NoCall
    /\ parsed' = NoCall
    /\ UNCHANGED <<tokenVars, webhook_secret, admissions, now, webhookVars, pinned, fetchVars, cursorVars>>

NextParse == Tick \/ ParseEvent \/ Pin \/ Forget

SpecParse == Init /\ [][NextParse]_vars

(***************************************************************************)
(* One fetch_data invocation.  fetch keeps the steps it took (steps), what *)
(* it met and how it ended, until the caller has the result.  The clock    *)
(* runs while it is suspended.                                             *)
(***************************************************************************)
\* The invocation after check_rate_limit returned or raised.
Started(user_id, admission) ==
    [pc |-> AfterAdmission(admission), user_id |-> user_id, at |-> now,
     before |-> last_pull,
     steps |-> <<"check_rate_limit">>,
     admitted |-> admission.ok, refreshed |-> FALSE,
     stored |-> NoTokens, refreshed_at |-> -1, exchanged |-> FALSE,
     bearer |-> Value(NoTokens),
     status |-> 0,
     response |-> NoResponse,
     result |-> IF admission.ok THEN NoResult
                ELSE FetchRaised(admission.exc, JNull, JNum(LocalRetryAfter), FALSE)]

\* fetch_data is called: lines 186-190, up to the await.
FetchStart ==
    /\ Idle
    /\ fetch = NoFetch
    /\ \E user_id \in Users, admitted \in BOOLEAN :
          fetch' = Routed(Started(user_id, check_rate_limit(admitted)))
    /\ UNCHANGED <<tokenVars, webhook_secret, admissions, now, webhookVars, parseVars, last_pull, cursorVars>>

\* refresh_if_needed completes: lines 190-202, up to the await of the
\* HTTP request.
FetchRefreshed ==
    /\ Idle
    /\ fetch.pc = "refreshing"
    /\ \E end \in refresh_if_needed(tokens, "garmin", fetch.user_id) :
          /\ fetch' = Routed([fetch EXCEPT
                          !.pc = AfterRefresh(end.result),
                          !.steps = Append(@, "refresh_if_needed"),
                          !.refreshed = end.result.ok,
                          !.stored = get_tokens(tokens, "garmin", fetch.user_id),
                          !.refreshed_at = now,
                          !.exchanged = end.exchanged,
                          !.bearer = end.result,
                          !.result = IF end.result.ok THEN @
                                     ELSE FetchRaised(end.result.exc, JNull, JNull, FALSE)])
          /\ tokens' = end.store
    /\ UNCHANGED <<refresh, oauth, webhook_secret, admissions, now, webhookVars, parseVars, last_pull,
                   cursorVars>>

\* The vendor answers: lines 202-236.
FetchResponded ==
    /\ Idle
    /\ fetch.pc = "requesting"
    /\ \E response \in Responses :
          LET result == classify_response(response)
          IN  /\ fetch' = Routed([fetch EXCEPT
                             !.pc = AfterResponse(result),
                             !.steps = Append(@, "http"),
                             !.response = response,
                             !.result = result])
              /\ last_pull' = IF result.recorded
                              THEN update_last_pull(last_pull, fetch.user_id)
                              ELSE last_pull
    /\ UNCHANGED <<tokenVars, webhook_secret, admissions, now, webhookVars, parseVars, cursorVars>>

\* The caller has the result.
FetchReturn ==
    /\ fetch.pc = "done"
    /\ fetch' = NoFetch
    /\ UNCHANGED <<tokenVars, webhook_secret, admissions, now, webhookVars, parseVars, last_pull, cursorVars>>

NextFetch == Tick \/ FetchStart \/ FetchRefreshed \/ FetchResponded \/ FetchReturn

InitFetch == \E store \in InitialStores : InitWith(store, <<>>)

SpecFetch == InitFetch /\ [][NextFetch]_vars

\* The awaits of fetch_data end: the token exchange and the HTTP request are
\* answered or fail, and the caller takes the result.
SpecFetchLive ==
    /\ SpecFetch
    /\ WF_vars(FetchRefreshed) /\ WF_vars(FetchResponded) /\ WF_vars(FetchReturn)

(***************************************************************************)
(* The cursor store, called directly and by pull requests.  advanced and   *)
(* high_water record what the calls did.                                   *)
(***************************************************************************)
Max(a, b) == IF a >= b THEN a ELSE b

\* What one update_cursor call leaves behind.
Stored(vendor, user_id, last_sync_ts, records_synced, cursor) ==
    /\ cursors' = DictSet(cursors, CursorKey(vendor, user_id), cursor)
    /\ advanced' = [key |-> CursorKey(vendor, user_id),
                    existing |-> get_cursor(cursors, vendor, user_id),
                    last_sync_ts |-> last_sync_ts,
                    records_synced |-> records_synced,
                    at |-> now,
                    cursor |-> cursor]
    /\ high_water' = [high_water EXCEPT ![CursorKey(vendor, user_id)] =
                         Max(@, cursor.records_synced)]
    /\ supplied' = [supplied EXCEPT ![CursorKey(vendor, user_id)] =
                       @ + records_synced]

\* sync_state.update_cursor(vendor, user_id, last_sync_ts, records_synced)
AdvanceFor(users) ==
    /\ \E user_id \in users, last_sync_ts \in {Iso(0), Iso(now)},
          records_synced \in {0, 3, 5} :
          LET existing == get_cursor(cursors, "garmin", user_id)
          IN  /\ (IF existing # NoCursor THEN existing.records_synced ELSE 0)
                    + records_synced <= MaxSynced
              /\ Stored("garmin", user_id, last_sync_ts, records_synced,
                        update_cursor(cursors, "garmin", user_id, last_sync_ts,
                                      records_synced, JNull))
    /\ UNCHANGED <<tokenVars, webhook_secret, admissions, now, webhookVars, parseVars, fetchVars,
                   pulls, started, last_reset>>

Advance == AdvanceFor(PullUsers)

\* sync_state.reset_cursor(vendor, user_id), of a cursor or of none.
ResetCursorFor(users) ==
    /\ Idle
    /\ \E vendor \in Vendors, user_id \in users :
          /\ cursors' = reset_cursor(cursors, vendor, user_id)
          /\ last_reset' = [key |-> CursorKey(vendor, user_id),
                            existed |-> CursorKey(vendor, user_id) \in DOMAIN cursors]
          /\ supplied' = [supplied EXCEPT ![CursorKey(vendor, user_id)] = 0]
    /\ advanced' = NoAdvance
    /\ UNCHANGED <<tokenVars, webhook_secret, admissions, now, webhookVars, parseVars, fetchVars,
                   pulls, started, high_water>>

ResetCursor == ResetCursorFor(PullUsers)

NextCursor == Tick \/ Advance \/ ResetCursor

\* The cursor store does not depend on the webhook secret.
InitCursor == Init /\ webhook_secret["whoop"] = ServerSecret

SpecCursor == InitCursor /\ [][NextCursor]_vars

(***************************************************************************)
(* Pull requests.  A request runs from its start to its first fetch, and   *)
(* from the end of one fetch to the next; after the last fetch it advances *)
(* the cursor and answers.  Requests of different tasks interleave at the  *)
(* fetches, and the clock runs meanwhile.                                  *)
(***************************************************************************)
Pending == LET Todo(p) == IF pulls[p] = NoPull \/ pulls[p].pc # "fetching" THEN 0
                          ELSE Len(pulls[p].todo)
           IN  Todo(1) + Todo(2)

\* Mutant: the cursor is updated whenever no resource type is left.
LoopEndedOrLeft(q) == q.todo = <<>>

\* The for loop has run over every resource type and nothing has left the
\* try body: line 551 is reached.
LoopEnded(q) == q.pc # "failed" /\ q.todo = <<>>

\* The request goes on after a fetch (or from its start): over unknown
\* types to the next fetch, or to the cursor update and the response
\* (lines 551-568).
Continue(p, pull) ==
    LET q == skip_unknown(pull)
    IN  IF LoopEnded(q)
        THEN /\ Stored("whoop", q.user_id, q.now, q.total_records,
                       update_cursor(cursors, "whoop", q.user_id, q.now,
                                     q.total_records, JNull))
             /\ pulls' = [pulls EXCEPT ![p] =
                   [q EXCEPT !.pc = "done",
                             !.http = 200,
                             !.calls = Append(@, [last_sync_ts |-> q.now,
                                                  records_synced |-> q.total_records]),
                             !.response = PullResponse(q)]]
        ELSE /\ pulls' = [pulls EXCEPT ![p] = q]
             /\ advanced' = NoAdvance
             /\ UNCHANGED <<cursors, high_water, supplied>>

\* POST /v1/pull/{user_id}: lines 497-524.
PullStart ==
    /\ Idle
    /\ \E p \in Tasks, user_id \in PullUsers, resource_types \in ResourceTypeParams,
          since \in SinceParams :
          LET types == IF resource_types = <<>> THEN AllResourceTypes
                       ELSE resource_types
              start == ResolveStart(cursors, user_id, since)
          IN  /\ pulls[p] = NoPull
              /\ p = 1 \/ pulls[1] # NoPull
              /\ started + Len(types) <= MaxTypes
              /\ started' = started + Len(types)
              /\ last_reset' = IF last_reset.key = CursorKey("whoop", user_id)
                               THEN NoReset ELSE last_reset
              /\ Pending = 0 \/ Pending + Len(types) <= MaxPending
              /\ Continue(p, [pc |-> "fetching", user_id |-> user_id,
                              since_param |-> since,
                              cursor_at_start |->
                                  IF get_cursor(cursors, "whoop", user_id) = NoCursor
                                  THEN JNull
                                  ELSE get_cursor(cursors, "whoop", user_id).last_sync_ts,
                              pull_type |-> start.pull_type, since |-> start.since,
                              now |-> Iso(now), resource_types |-> types,
                              todo |-> types,
                              results |-> <<>>, total_records |-> 0,
                              attempts |-> <<>>, calls |-> <<>>,
                              http |-> 0,
                              response |-> NoPullResponse])
    /\ UNCHANGED <<tokenVars, webhook_secret, admissions, now, webhookVars, parseVars, fetchVars>>

\* A collection fetch of a request ends: lines 525-568.
PullFetch ==
    /\ Idle
    /\ \E p \in Tasks, outcome \in FetchOutcomes :
          /\ pulls[p] # NoPull
          /\ pulls[p].pc = "fetching"
          /\ Continue(p, handle_fetch(pulls[p], outcome))
    /\ UNCHANGED <<tokenVars, webhook_secret, admissions, now, webhookVars, parseVars, fetchVars,
                   started, last_reset>>

\* The response (or the failure) is sent.
PullReturn ==
    /\ \E p \in Tasks :
          /\ Answered(p)
          /\ pulls' = [pulls EXCEPT ![p] = NoPull]
    /\ advanced' = NoAdvance
    /\ UNCHANGED <<tokenVars, webhook_secret, admissions, now, webhookVars, parseVars, fetchVars,
                   cursors, started, high_water, last_reset, supplied>>

NextPull == Tick \/ PullStart \/ PullFetch \/ PullReturn \/ ResetCursor

SpecPull == InitCursor /\ [][NextPull]_vars

(***************************************************************************)
(* The OAuth routes and the token store.  oauth keeps the request being    *)
(* answered: the store it found, what the connector returned or raised,    *)
(* and the answer of the route.                                            *)
(***************************************************************************)
\* GET or POST /v1/oauth/callback, at the end of the code exchange.
OAuthCallbackFor(vendor, users) ==
    /\ Idle
    /\ \E user_id \in users, usable \in BOOLEAN :
       \E method \in (IF vendor = "whoop" THEN {"GET", "POST"} ELSE {"GET"}) :
       \E answer \in ExchangeAnswers(vendor) :
          LET call == IF usable THEN exchange_code(tokens, vendor, user_id, answer)
                      ELSE [store |-> tokens, result |-> Throw("HTTPException")]
          IN  /\ vendor = "garmin" => usable
              /\ oauth' = [op |-> "callback", vendor |-> vendor, user_id |-> user_id,
                           method |-> method,
                           usable |-> usable, before |-> tokens,
                           result |-> call.result,
                           answer |-> IF method = "POST"
                                      THEN oauth_callback_post(vendor, user_id, usable,
                                                               call.result)
                                      ELSE oauth_callback(vendor, user_id, usable,
                                                          call.result)]
              /\ tokens' = call.store
    /\ UNCHANGED <<refresh, webhook_secret, admissions, now, webhookVars, parseVars,
                   fetchVars, cursorVars>>

OAuthCallback(vendor) == OAuthCallbackFor(vendor, PullUsers)

\* DELETE /v1/oauth/disconnect
DisconnectFor(vendor, users) ==
    /\ Idle
    /\ \E user_id \in users :
          LET call == connector_revoke_tokens(tokens, vendor, user_id)
          IN  /\ oauth' = [op |-> "disconnect", vendor |-> vendor, user_id |-> user_id,
                           method |-> "DELETE",
                           usable |-> TRUE, before |-> tokens,
                           result |-> call.result,
                           answer |-> disconnect_user(vendor, user_id, call.result)]
              /\ tokens' = call.store
    /\ UNCHANGED <<refresh, webhook_secret, admissions, now, webhookVars, parseVars, fetchVars,
                   cursorVars>>

Disconnect(vendor) == DisconnectFor(vendor, PullUsers)

\* The answer is sent.
OAuthRespond ==
    /\ oauth # NoOAuth
    /\ oauth' = NoOAuth
    /\ UNCHANGED <<tokens, refresh, webhook_secret, admissions, now, webhookVars, parseVars,
                   fetchVars, cursorVars>>

(***************************************************************************)
(* refresh_if_needed called by another request while a fetch runs.  The    *)
(* call suspends at the refresh-token exchange; the store may change       *)
(* before the exchange is answered.                                        *)
(***************************************************************************)
\* The call reads the stored tokens and decides.
RefreshStart ==
    /\ Idle
    /\ refresh = NoRefresh
    /\ \E user_id \in PullUsers :
          LET held == get_tokens(tokens, "garmin", user_id)
          IN  \E needed \in (IF held = NoTokens THEN {FALSE}
                             ELSE NeedsRefresh(held, now)) :
                 refresh' = [pc |-> IF needed THEN "exchanging" ELSE "done",
                             user_id |-> user_id, stored |-> held, at |-> now,
                             exchanged |-> needed,
                             result |-> IF held = NoTokens THEN Throw("NotConnected")
                                        ELSE Value(held)]
    /\ UNCHANGED <<tokens, oauth, webhook_secret, admissions, now, webhookVars, parseVars,
                   fetchVars, cursorVars>>

\* The refresh-token exchange is answered.
RefreshExchanged ==
    /\ Idle
    /\ refresh.pc = "exchanging"
    /\ \E answer \in RefreshAnswers("garmin", refresh.stored) :
          LET end == Refreshed(tokens, "garmin", refresh.user_id, answer)
          IN  /\ refresh' = [refresh EXCEPT !.pc = "done", !.result = end.result]
              /\ tokens' = end.store
    /\ UNCHANGED <<oauth, webhook_secret, admissions, now, webhookVars, parseVars, fetchVars,
                   cursorVars>>

\* The caller has the tokens.
RefreshReturn ==
    /\ refresh.pc = "done"
    /\ refresh' = NoRefresh
    /\ UNCHANGED <<tokens, oauth, webhook_secret, admissions, now, webhookVars, parseVars,
                   fetchVars, cursorVars>>

\* The routes of both services.
NextOAuth ==
    \/ Tick \/ OAuthCallback("garmin") \/ OAuthCallback("whoop")
    \/ Disconnect("garmin") \/ Disconnect("whoop") \/ OAuthRespond

\* The token store does not depend on the webhook secret.
InitTokens == InitFetch /\ webhook_secret["whoop"] = ServerSecret

SpecOAuth == InitTokens /\ [][NextOAuth]_vars

\* The Garmin service: its routes, its fetches, and the refreshes of other
\* requests.
NextTokens ==
    \/ Tick \/ OAuthCallback("garmin") \/ Disconnect("garmin") \/ OAuthRespond
    \/ RefreshStart \/ RefreshExchanged \/ RefreshReturn
    \/ FetchStart \/ FetchRefreshed \/ FetchResponded \/ FetchReturn

SpecTokens == InitTokens /\ [][NextTokens]_vars

(***************************************************************************)
(* fetch_data behind the rate limiter of the service.  Time passes between *)
(* calls by a whole time_window or by one second less.                     *)
(***************************************************************************)
Elapse ==
    /\ Idle
    /\ \E d \in {time_window - 1, time_window} :
          /\ now + d <= 2 * time_window
          /\ now' = now + d
    /\ UNCHANGED <<tokenVars, webhook_secret, admissions, webhookVars, parseVars,
                   fetchVars, cursorVars>>

\* fetch_data is called: check_rate_limit asks the limiter (lines 186-190).
FetchAdmit ==
    /\ Idle
    /\ fetch = NoFetch
    /\ Len(admissions) <= max_burst
    /\ \E user_id \in Users :
       \E call \in check_and_admit(admissions, user_id, now) :
          /\ fetch' = Routed(Started(user_id, check_rate_limit(call.admitted)))
          /\ admissions' = call.log
    /\ UNCHANGED <<tokenVars, webhook_secret, now, webhookVars, parseVars, last_pull,
                   cursorVars>>

NextLimit == Elapse \/ FetchAdmit \/ FetchRefreshed \/ FetchResponded \/ FetchReturn

\* The service with the tokens of a connected user loaded.
InitLimit ==
    /\ InitTokens
    /\ tokens # {}
    /\ \A entry \in tokens : entry.tokens.expires_in = 3600

SpecLimit == InitLimit /\ [][NextLimit]_vars

\* The token store and the cursor store side by side: the tokens of two
\* Garmin users and of a WHOOP user, the cursors of a Garmin user, and the
\* resets of every key.
NextStores ==
    \/ OAuthCallbackFor("garmin", Users)
    \/ DisconnectFor("garmin", Users) \/ DisconnectFor("whoop", PullUsers)
    \/ OAuthRespond
    \/ AdvanceFor(PullUsers) \/ ResetCursorFor(Users)

SpecStores == InitLimit /\ [][NextStores]_vars

\* Pull requests one after another, none starting while another runs, and
\* resets between them, while the clock goes on in steps of about a minute.
NoPullRuns == \A p \in Tasks : pulls[p] = NoPull

PullStartAlone == NoPullRuns /\ PullStart

NextWindows == Elapse \/ PullStartAlone \/ PullFetch \/ PullReturn \/ ResetCursor

SpecWindows == InitCursor /\ [][NextWindows]_vars

\* The data routes of the two services: the Garmin fetch routes and the
\* WHOOP pull route.
NextData ==
    \/ FetchStart \/ FetchRefreshed \/ FetchResponded \/ FetchReturn
    \/ PullStart \/ PullFetch \/ PullReturn

SpecData == InitLimit /\ [][NextData]_vars



(***************************************************************************)
(* Properties of the webhook path, checked under Spec.                     *)
(***************************************************************************)
\* The values the signature headers of a request carry, the empty string
\* left out.
PresentedSignatures(req) ==
    {req.headers[n] : n \in DOMAIN req.headers} \ {EmptyString}

ExpectedGarmin(req) == Hmac(webhook_secret["garmin"], Message(NoPrefix, req.body))

BothWhoopHeaders(req) ==
    /\ "x-whoop-signature" \in DOMAIN req.headers
    /\ req.headers["x-whoop-signature"] # EmptyString
    /\ "x-whoop-signature-timestamp" \in DOMAIN req.headers

WhoopAge(req) == req.at - req.headers["x-whoop-signature-timestamp"].n

\* The request carries a signature made with the server's secret over what
\* the scheme signs, and under the timestamped scheme the timestamp is fresh.
Authentic(req) ==
    /\ webhook_secret[req.vendor] # ""
    /\ IF req.vendor = "garmin"
       THEN ExpectedGarmin(req) \in PresentedSignatures(req)
       ELSE /\ BothWhoopHeaders(req)
            /\ WhoopAge(req) <= ReplayWindow
            /\ req.headers["x-whoop-signature"]
                 = Hmac(webhook_secret["whoop"],
                        Message(req.headers["x-whoop-signature-timestamp"].n, req.body))

\* C1: parse_event is reached and a message is enqueued only for a delivery
\* whose verification succeeded; a failed verification leaves the queue as
\* it was.
C1_OnlyVerifiedReachQueue ==
    request # NoRequest =>
        /\ Len(messages) = request.queued_before + (IF request.enqueued THEN 1 ELSE 0)
        /\ request.enqueued => request.parsed
        /\ request.parsed =>
              /\ ~request.verify.raised
              /\ request.verify.value = TRUE
              /\ Authentic(request)

\* A delivery with a wrong signature is turned away while the queue holds an
\* earlier, accepted one.
C1_Witness ==
    /\ request # NoRequest
    /\ request.verify.raised
    /\ request.verify.msg \in {MsgHashMismatch, MsgSignatureMismatch}
    /\ ~request.parsed
    /\ ~request.enqueued
    /\ Len(messages) = 1
    /\ request.queued_before = 1

\* C2: a verification failure is answered 400, never 5xx.
C2_VerificationFailureIs400 ==
    (request # NoRequest /\ request.verify.raised) => request.status = 400

C2_Witness ==
    /\ request # NoRequest
    /\ request.vendor = "garmin"
    /\ request.verify.raised
    /\ request.verify.msg = MsgHashMismatch
    /\ request.status = 400

NoUsableSignature(req) ==
    \A n \in GarminHeaderNames :
        n \in DOMAIN req.headers => req.headers[n] = EmptyString

\* C3, as stated: with no usable value under the four header names,
\* verify_webhook raises the missing-signature error and does not reach the
\* HMAC comparison.
C3_MissingSignatureRaises ==
    (request.vendor = "garmin" /\ NoUsableSignature(request)) =>
        /\ request.verify.raised
        /\ request.verify.exc = "WebhookError"
        /\ request.verify.msg = MsgMissingSignature
        /\ ~request.verify.compared

\* C3, amended: the same, for a connector whose webhook verifier is
\* configured; without one the error raised is the not-configured one.  In
\* both cases the HMAC comparison is not reached.
C3_MissingSignatureRaisesWhenConfigured ==
    (request.vendor = "garmin" /\ NoUsableSignature(request)) =>
        /\ request.verify.raised
        /\ request.verify.exc = "WebhookError"
        /\ ~request.verify.compared
        /\ request.verify.msg =
             IF webhook_secret["garmin"] # "" THEN MsgMissingSignature
             ELSE MsgNotConfigured

\* Headers present but empty, verifier configured.
C3_Witness ==
    /\ request.vendor = "garmin"
    /\ webhook_secret["garmin"] # ""
    /\ DOMAIN request.headers # {}
    /\ NoUsableSignature(request)
    /\ request.verify.msg = MsgMissingSignature
    /\ request.status = 400

\* C4: with a secret configured, verify_webhook returns True when the
\* signature presented, under whichever header, is HMAC-SHA256(secret, body),
\* and raises the mismatch error when what is presented differs from it
\* (another key, or the digest of another body).
C4_ValidIffHmacMatches ==
    (request.vendor = "garmin" /\ webhook_secret["garmin"] # "") =>
        LET presented == PresentedSignatures(request)
        IN  /\ presented = {ExpectedGarmin(request)} =>
                  (~request.verify.raised /\ request.verify.value = TRUE)
            /\ (presented # {} /\ ExpectedGarmin(request) \notin presented) =>
                  /\ request.verify.raised
                  /\ request.verify.exc = "WebhookError"
                  /\ request.verify.msg = MsgHashMismatch

\* The right signature under the legacy header alone.
C4_Witness ==
    /\ request.vendor = "garmin"
    /\ DOMAIN request.headers = {"X-Gfit-Signature"}
    /\ request.headers["X-Gfit-Signature"] = ExpectedGarmin(request)
    /\ ~request.verify.raised
    /\ request.verify.value = TRUE

\* C5: a timestamp older than the replay window is rejected as a replay
\* whatever the signature, so a delivery accepted before is not accepted
\* again once the window has passed.
C5_StaleTimestampRejected ==
    (/\ request.vendor = "whoop"
     /\ webhook_secret["whoop"] # ""
     /\ BothWhoopHeaders(request)
     /\ WhoopAge(request) > ReplayWindow) =>
        /\ request.verify.raised
        /\ request.verify.msg = MsgReplayRejected
        /\ ~request.parsed
        /\ ~request.enqueued
        /\ request.status = 400

\* A delivery that was accepted, sent again after the window, correctly
\* signed.
C5_Witness ==
    /\ request.vendor = "whoop"
    /\ [headers |-> request.headers, body |-> request.body] \in accepted
    /\ Authentic([request EXCEPT !.at = 0])
    /\ WhoopAge(request) > ReplayWindow
    /\ request.verify.msg = MsgReplayRejected
    /\ ~request.enqueued

(***************************************************************************)
(* Properties of fetch_data, checked under SpecFetch.                      *)
(***************************************************************************)
FetchOrder == <<"check_rate_limit", "refresh_if_needed", "http">>

Took(step) == \E i \in 1..Len(fetch.steps) : fetch.steps[i] = step

\* C11: an invocation takes its steps in the order admission, token
\* refresh, HTTP request; the request is made only after both succeeded, a
\* refused admission ends the invocation before the refresh, a failed
\* refresh ends it before the request.
C11_AdmitRefreshThenRequest ==
    fetch # NoFetch =>
        /\ fetch.steps = SubSeq(FetchOrder, 1, Len(fetch.steps))
        /\ Took("http") => (fetch.admitted /\ fetch.refreshed)
        /\ ~fetch.admitted =>
              /\ fetch.steps = <<"check_rate_limit">>
              /\ fetch.pc = "done"
              /\ fetch.result.raised
        /\ (Took("refresh_if_needed") /\ ~fetch.refreshed) =>
              /\ ~Took("http")
              /\ fetch.pc = "done"
              /\ fetch.result.raised

\* A complete invocation, and the payload returned.
C11_Witness ==
    /\ fetch # NoFetch
    /\ fetch.pc = "done"
    /\ fetch.steps = FetchOrder
    /\ fetch.response.status_code = 200
    /\ ~fetch.result.raised

VendorAnswered == fetch # NoFetch /\ fetch.pc = "done" /\ Took("http")

\* C12: the response is classified by its status code alone: 429 fails
\* with RateLimitError, 204 returns the empty result, any other status but
\* 200 fails with VendorAPIError carrying the status, 200 returns the
\* decoded payload.
C12_ClassifiedByStatus ==
    VendorAnswered =>
        LET status == fetch.response.status_code
            result == fetch.result
        IN  /\ status = 429 => (result.raised /\ result.exc = "RateLimitError")
            /\ status = 204 => (~result.raised /\ result.value = JArr(<<>>))
            /\ status \notin {200, 204, 429} =>
                  /\ result.raised
                  /\ result.exc = "VendorAPIError"
                  /\ result.status_code = JNum(status)
            /\ status = 200 => ~result.raised

\* C13: on 429 the RateLimitError carries the value of the vendor's
\* Retry-After header, 60 when there is none.
C13_RetryAfterFromVendor ==
    (VendorAnswered /\ fetch.response.status_code = 429) =>
        LET header == fetch.response.retry_after
            result == fetch.result
        IN  /\ result.raised
            /\ result.exc = "RateLimitError"
            /\ result.retry_after # JNull
            /\ header = JNull => result.retry_after = JNum(DefaultRetryAfter)
            /\ (header # JNull /\ header.s \in IntLiterals) =>
                  result.retry_after = JNum(IntOf(header.s))

\* C14: an invocation that returns (the decoded payload of a 200, the
\* empty result of a 204) has recorded the last pull of its user.
C14_SuccessRecordsLastPull ==
    (fetch # NoFetch /\ fetch.pc = "done" /\ ~fetch.result.raised) =>
        /\ fetch.result.recorded
        /\ last_pull[fetch.user_id] # JNull
        /\ last_pull[fetch.user_id].n >= fetch.at

\* C15: an invocation that fails by a refused admission, a failed refresh,
\* a 429 or another status that is neither 200 nor 204 leaves every last
\* pull timestamp as it was.
C15_FailureKeepsLastPull ==
    (/\ fetch # NoFetch
     /\ fetch.pc = "done"
     /\ \/ ~fetch.admitted
        \/ Took("refresh_if_needed") /\ ~fetch.refreshed
        \/ Took("http") /\ fetch.response.status_code \notin {200, 204}) =>
        /\ fetch.result.raised
        /\ ~fetch.result.recorded
        /\ last_pull = fetch.before

\* A user pulled before, later a vendor outage: the timestamp stays.
C15_Witness ==
    /\ fetch # NoFetch
    /\ fetch.pc = "done"
    /\ fetch.response.status_code = 503
    /\ fetch.result.exc = "VendorAPIError"
    /\ last_pull[fetch.user_id] # JNull
    /\ last_pull[fetch.user_id].n < fetch.at
    /\ last_pull = fetch.before

(***************************************************************************)
(* Properties of the cursor store, checked under SpecCursor.               *)
(***************************************************************************)
\* C16: update_cursor creates the cursor on the first call for a key, with
\* created_at = now and records_synced = the supplied count; on a later
\* call it adds the supplied count to the stored one, sets updated_at =
\* now and last_sync_ts to the supplied value, and keeps created_at.
C16_AdvanceAccumulates ==
    advanced # NoAdvance =>
        LET existing == advanced.existing
            cursor == advanced.cursor
        IN  /\ cursors[advanced.key] = cursor
            /\ cursor.last_sync_ts = advanced.last_sync_ts
            /\ cursor.updated_at = Iso(advanced.at)
            /\ IF existing = NoCursor
               THEN /\ cursor.created_at = Iso(advanced.at)
                    /\ cursor.records_synced = advanced.records_synced
               ELSE /\ cursor.created_at = existing.created_at
                    /\ cursor.records_synced =
                          existing.records_synced + advanced.records_synced

\* Five records, later three more: eight, and the creation time as it was.
C16_Witness ==
    /\ advanced # NoAdvance
    /\ advanced.existing # NoCursor
    /\ advanced.existing.records_synced = 5
    /\ advanced.records_synced = 3
    /\ advanced.cursor.records_synced = 8
    /\ advanced.cursor.created_at.at < advanced.cursor.updated_at.at

(***************************************************************************)
(* Properties of pull requests, checked under SpecPull.                    *)
(***************************************************************************)
\* C17, as stated: the records_synced of a key never decreases, whatever
\* the cursor operations.
C17_RecordsSyncedNeverDecreases ==
    \A key \in DOMAIN cursors : cursors[key].records_synced >= high_water[key]

\* C17, amended: the records_synced of a cursor never decreases as long as
\* the cursor exists; a reset deletes the cursor, and the count of the
\* cursor created after it starts again from the count then supplied.
C17_RecordsSyncedGrowsWhileCursorExists ==
    [][\A key \in DOMAIN cursors \cap DOMAIN cursors' :
          cursors'[key].records_synced >= cursors[key].records_synced]_vars

\* After a reset the cursor was created again, below its old count, and a
\* further pull has advanced it.
C17_Witness ==
    /\ advanced # NoAdvance
    /\ advanced.existing # NoCursor
    /\ advanced.cursor.records_synced > advanced.existing.records_synced
    /\ advanced.existing.records_synced < high_water[advanced.key]

\* C18: the last_sync_ts an advance stores is not before the one it
\* replaces, however the pull requests of a user interleave.
C18_LastSyncNeverMovesBack ==
    (advanced # NoAdvance /\ advanced.existing # NoCursor) =>
        advanced.cursor.last_sync_ts.at >= advanced.existing.last_sync_ts.at

\* C19: the start point is the since parameter for a pull that has one
\* ("manual"), else the last_sync_ts of the cursor when there is one
\* ("incremental"), else seven days before now ("initial"); the response
\* reports the pull type and start point used.
C19_StartPointResolution ==
    \A p \in Tasks :
        pulls[p] # NoPull =>
            LET pull == pulls[p]
            IN  /\ IF ~NotSince(pull.since_param)
                   THEN /\ pull.pull_type = "manual"
                        /\ pull.since = pull.since_param
                   ELSE IF pull.cursor_at_start # JNull
                   THEN /\ pull.pull_type = "incremental"
                        /\ pull.since = pull.cursor_at_start
                   ELSE /\ pull.pull_type = "initial"
                        /\ pull.since = Iso(pull.now.at - SevenDays)
                /\ pull.pc = "done" =>
                      /\ pull.response.pull_type = pull.pull_type
                      /\ pull.response.since = pull.since

\* A pull without since, for a user pulled before.
C19_Witness ==
    \E p \in Tasks :
        /\ pulls[p] # NoPull
        /\ pulls[p].pc = "done"
        /\ pulls[p].since_param = JNull
        /\ pulls[p].response.pull_type = "incremental"
        /\ pulls[p].response.since.at < pulls[p].now.at

RECURSIVE RecordsOf(_)
RecordsOf(attempts) ==
    IF attempts = <<>> THEN 0
    ELSE (IF Head(attempts)[2].kind = "records" THEN Head(attempts)[2].n ELSE 0)
         + RecordsOf(Tail(attempts))

IsKnown(resource_type) == resource_type \in KnownResourceTypes

\* The types of the fetches made, in order.
RECURSIVE Attempted(_)
Attempted(attempts) ==
    IF attempts = <<>> THEN <<>>
    ELSE <<Head(attempts)[1]>> \o Attempted(Tail(attempts))

\* C20: a rate-limit or vendor error of one fetch becomes the error entry
\* of its type and the remaining types are still fetched; after the last
\* type the cursor is advanced once, with the timestamp of the pull and the
\* number of records of the fetches that succeeded, which is also the
\* total_records of the response.
C20_ErrorsDoNotAbortThePull ==
    \A p \in Tasks :
        pulls[p] # NoPull =>
            LET pull == pulls[p]
                n == Len(pull.attempts)
            IN  /\ pull.pc = "fetching" => pull.calls = <<>>
                /\ pull.pc = "failed" =>
                      /\ pull.attempts[n][2].kind \notin CaughtErrors \cup {"records"}
                      /\ pull.calls = <<>>
                /\ pull.pc = "done" =>
                      /\ Attempted(pull.attempts) = SelectSeq(pull.resource_types, IsKnown)
                      /\ \A i \in 1..n :
                            LET resource_type == pull.attempts[i][1]
                                outcome == pull.attempts[i][2]
                            IN  /\ resource_type \in DOMAIN pull.results
                                /\ (\A j \in (i + 1)..n : pull.attempts[j][1] # resource_type) =>
                                      pull.results[resource_type] =
                                          IF outcome.kind = "records"
                                          THEN RecordsEntry(outcome.n)
                                          ELSE ErrorEntry(outcome.kind)
                      /\ pull.response.total_records = RecordsOf(pull.attempts)
                      /\ pull.calls = <<[last_sync_ts |-> pull.now,
                                         records_synced |-> RecordsOf(pull.attempts)]>>
                      /\ advanced # NoAdvance
                      /\ advanced.cursor.last_sync_ts = pull.now
                      /\ advanced.cursor.records_synced =
                            (IF advanced.existing = NoCursor THEN 0
                             ELSE advanced.existing.records_synced)
                                + RecordsOf(pull.attempts)
                      /\ cursors[CursorKey("whoop", pull.user_id)] = advanced.cursor

\* A pull of all four types: the first is rate limited, the third fails
\* at the vendor, the other two bring two records each.
C20_Witness ==
    \E p \in Tasks :
        /\ pulls[p] # NoPull
        /\ pulls[p].pc = "done"
        /\ pulls[p].resource_types = AllResourceTypes
        /\ pulls[p].results["recovery"] = ErrorEntry("RateLimitError")
        /\ pulls[p].results["sleep"] = RecordsEntry(2)
        /\ pulls[p].results["workout"] = ErrorEntry("VendorAPIError")
        /\ pulls[p].results["cycle"] = RecordsEntry(2)
        /\ pulls[p].response.total_records = 4
        /\ advanced.cursor.records_synced = 4

(***************************************************************************)
(* Properties of parse_event, checked under SpecParse.                     *)
(***************************************************************************)
ResourceKeys == <<"summaries", "activities", "sleeps">>

IdField(key) ==
    CASE key = "summaries" -> "summaryId"
      [] key = "activities" -> "activityId"
      [] key = "sleeps" -> "sleepId"

\* The payload has the expected structure: a JSON object with a userId whose
\* resource collections, where present, are lists of objects.
WellFormed(raw_body) ==
    /\ raw_body.kind = "json"
    /\ raw_body.doc.t = "obj"
    /\ "userId" \in DOMAIN raw_body.doc.o
    /\ \A i \in 1..Len(ResourceKeys) :
          ResourceKeys[i] \in DOMAIN raw_body.doc.o =>
             LET c == raw_body.doc.o[ResourceKeys[i]]
             IN  /\ c.t = "arr"
                 /\ \A j \in 1..Len(c.a) : c.a[j].t = "obj"

\* C6: parse_event fails with the malformed-payload WebhookError, and with
\* no other error, for every body that is not valid JSON, has not the
\* expected structure or lacks userId.
C6_MalformedIsWebhookError ==
    (parsed # NoCall /\ ~WellFormed(parsed.body)) =>
        (~parsed.result.ok /\ parsed.result.exc = "WebhookError")

\* The resource collection of a document that is a non-empty list.
NonEmptyList(doc, key) ==
    /\ key \in DOMAIN doc.o
    /\ doc.o[key].t = "arr"
    /\ Len(doc.o[key].a) > 0

\* The position in the priority list of the first populated collection,
\* 0 when there is none.
FirstPopulated(doc) ==
    IF \E i \in 1..Len(ResourceKeys) : NonEmptyList(doc, ResourceKeys[i])
    THEN CHOOSE i \in 1..Len(ResourceKeys) :
            /\ NonEmptyList(doc, ResourceKeys[i])
            /\ \A j \in 1..(i - 1) : ~NonEmptyList(doc, ResourceKeys[j])
    ELSE 0

FieldOr(entry, key, default) ==
    IF key \in DOMAIN entry.o THEN entry.o[key] ELSE default

\* What one entry of a collection is normalised to.
EntryEvent(key, entry) ==
    [type |-> IF key = "summaries"
              THEN JStr(Lower(FieldOr(entry, "dataType", JStr("daily")).s) \o ".updated")
              ELSE IF key = "activities" THEN JStr("activity.updated")
              ELSE JStr("sleep.updated"),
     id |-> FieldOr(entry, IdField(key), JNull)]

\* C7: the event is taken from the first element of the first non-empty
\* collection in the order summaries, activities, sleeps.
C7_FirstPopulatedCollection ==
    (parsed # NoCall /\ parsed.result.ok) =>
        LET doc == parsed.body.doc
            i == FirstPopulated(doc)
            ev == parsed.result.event
        IN  i > 0 =>
              [type |-> ev.type, id |-> ev.id]
                 = EntryEvent(ResourceKeys[i], doc.o[ResourceKeys[i]].a[1])

\* An empty higher-priority collection beside a populated lower-priority one,
\* and several populated collections at once.
C7_Witness ==
    /\ parsed # NoCall
    /\ parsed.result.ok
    /\ "summaries" \in DOMAIN parsed.body.doc.o
    /\ parsed.body.doc.o["summaries"] = JArr(<<>>)
    /\ NonEmptyList(parsed.body.doc, "activities")
    /\ Len(parsed.body.doc.o["activities"].a) > 1
    /\ NonEmptyList(parsed.body.doc, "sleeps")
    /\ parsed.result.event.type = JStr("activity.updated")
    /\ parsed.result.event.id = JStr("a-1")

\* C8: event_type is the lower-cased resource kind followed by ".updated",
\* the id is the entry's own id field, user_id is the payload's userId.
C8_EventTypeDerivation ==
    (parsed # NoCall /\ parsed.result.ok) =>
        LET doc == parsed.body.doc
            ev == parsed.result.event
            entry(key) == doc.o[key].a[1]
        IN  /\ ev.user_id = doc.o["userId"]
            /\ NonEmptyList(doc, "summaries") =>
                  /\ ev.type = JStr(Lower(FieldOr(entry("summaries"), "dataType",
                                                  JStr("daily")).s) \o ".updated")
                  /\ ev.id = FieldOr(entry("summaries"), "summaryId", JNull)
            /\ (~NonEmptyList(doc, "summaries") /\ NonEmptyList(doc, "activities")) =>
                  /\ ev.type = JStr("activity.updated")
                  /\ ev.id = FieldOr(entry("activities"), "activityId", JNull)
            /\ (/\ ~NonEmptyList(doc, "summaries")
                /\ ~NonEmptyList(doc, "activities")
                /\ NonEmptyList(doc, "sleeps")) =>
                  /\ ev.type = JStr("sleep.updated")
                  /\ ev.id = FieldOr(entry("sleeps"), "sleepId", JNull)

\* The scenario of the specification: userId u1, one DAILY summary d-1.
C8_Witness ==
    /\ parsed # NoCall
    /\ parsed.body = JsonBody(ScenarioDoc)
    /\ parsed.result.ok
    /\ parsed.result.event.user_id = JStr("u1")
    /\ parsed.result.event.type = JStr("daily.updated")
    /\ parsed.result.event.id = JStr("d-1")

\* C9: every returned event has a trace_id that is present; it is the
\* resource's own id when the payload supplies one, else the user id.
C9_TraceIdPresent ==
    (parsed # NoCall /\ parsed.result.ok) =>
        LET ev == parsed.result.event
        IN  /\ ev.trace_id # JNull
            /\ ev.trace_id # JStr("")
            /\ ev.trace_id = IF ev.id # JNull THEN ev.id ELSE ev.user_id

ResetStep == last_reset' # last_reset /\ last_reset' # NoReset

\* The step is the start of a pull request of task p.
PullStartStep(p) == pulls[p] = NoPull /\ pulls'[p] # NoPull

\* C21: after a reset the cursor of the pair is absent, whether or not it
\* was there, and the pull request that starts next for the user without a
\* since parameter is an initial one, from seven days before its start.
C21_NextPullAfterResetIsInitial ==
    [][/\ ResetStep =>
            /\ last_reset'.key \notin DOMAIN cursors'
            /\ \A k \in DOMAIN cursors \ {last_reset'.key} :
                  k \in DOMAIN cursors' /\ cursors'[k] = cursors[k]
       /\ \A p \in Tasks :
             (/\ PullStartStep(p)
              /\ last_reset.key = CursorKey("whoop", pulls'[p].user_id)
              /\ NotSince(pulls'[p].since_param))
             => /\ pulls'[p].pull_type = "initial"
                /\ pulls'[p].since = Iso(now - SevenDays)]_vars

(***************************************************************************)
(* Properties of webhooks and cursors, checked under SpecPush.             *)
(***************************************************************************)
\* C22: a step that handles a webhook request, accepted or rejected, or
\* that sends its response, leaves every sync cursor as it was.
C22_WebhooksLeaveCursors ==
    [][request' # request => cursors' = cursors]_vars

\* A delivery is rejected after another was accepted, while a cursor is
\* stored.
C22_Witness ==
    /\ cursors # <<>>
    /\ messages # <<>>
    /\ request # NoRequest
    /\ ~request.enqueued

(***************************************************************************)
(* Properties of concurrent pull requests, checked under SpecPull.         *)
(***************************************************************************)
\* C23: whatever the interleaving of the pull requests of a user, the
\* records_synced of the cursor is the sum of the totals every request
\* handed to update_cursor since the cursor was created: no total is lost.
C23_NoLostCursorUpdate ==
    \A k \in CursorKeys :
        IF k \in DOMAIN cursors
        THEN cursors[k].records_synced = supplied[k]
        ELSE supplied[k] = 0

\* A request adds its total to a cursor that another request created while
\* the first was fetching.
C23_Witness ==
    \E p \in Tasks :
        /\ pulls[p] # NoPull
        /\ pulls[p].pc = "done"
        /\ pulls[p].cursor_at_start = JNull
        /\ pulls[p].total_records > 0
        /\ advanced # NoAdvance
        /\ advanced.existing # NoCursor
        /\ advanced.existing.records_synced > 0
        /\ cursors[advanced.key].records_synced =
              advanced.existing.records_synced + pulls[p].total_records

(***************************************************************************)
(* Properties of the token store, checked under SpecTokens.                *)
(***************************************************************************)
\* C24: in every state the token store holds at most one entry, and so one
\* token value, for a key (vendor, user): a save takes the place of what the
\* key had, also when two requests of a user both refresh its tokens.
C24_OneTokenValuePerKey ==
    \A e1 \in tokens, e2 \in tokens : e1.key = e2.key => e1 = e2

\* A fetch and another request read the same tokens of a user, both
\* exchanged them, and both saved what they were granted.
C24_Witness ==
    /\ fetch # NoFetch
    /\ fetch.exchanged
    /\ fetch.refreshed
    /\ refresh.pc = "done"
    /\ refresh.exchanged
    /\ refresh.result.ok
    /\ refresh.user_id = fetch.user_id
    /\ refresh.stored = fetch.stored
    /\ get_tokens(tokens, "garmin", fetch.user_id) = refresh.result.value
    /\ refresh.result.value # refresh.stored

\* The step is the token step of the fetch.
FetchTokenStep == fetch.pc = "refreshing" /\ fetch'.pc # "refreshing"

\* C25: refresh_if_needed exchanges the refresh token when the stored
\* tokens expire less than the safety margin from now, and then the stored
\* record is replaced by what was granted; it makes no exchange when they
\* expire more than the margin from now, and then returns the stored tokens
\* and leaves the store as it was.
C25_RefreshWithinMargin ==
    /\ [][FetchTokenStep =>
             LET held == get_tokens(tokens, "garmin", fetch.user_id)
             IN  held # NoTokens =>
                   /\ held.expires_at - now < SafetyMargin =>
                         /\ fetch'.exchanged
                         /\ fetch'.refreshed =>
                               /\ fetch'.bearer.value # held
                               /\ get_tokens(tokens', "garmin", fetch.user_id)
                                     = fetch'.bearer.value
                   /\ held.expires_at - now > SafetyMargin =>
                         /\ ~fetch'.exchanged
                         /\ fetch'.bearer = Value(held)
                         /\ tokens' = tokens]_vars
    /\ [](refresh # NoRefresh /\ refresh.stored # NoTokens =>
             /\ refresh.stored.expires_at - refresh.at < SafetyMargin =>
                   refresh.exchanged
             /\ refresh.stored.expires_at - refresh.at > SafetyMargin =>
                   ~refresh.exchanged /\ refresh.result = Value(refresh.stored))

\* A fetch found tokens that expired in 30 seconds and refreshed them; the
\* call of another request then found tokens that expire in 3600 seconds
\* and returned them.
C25_Witness ==
    /\ fetch # NoFetch
    /\ fetch.stored # NoTokens
    /\ fetch.stored.expires_at - fetch.refreshed_at = 30
    /\ fetch.exchanged
    /\ fetch.refreshed
    /\ refresh.pc = "done"
    /\ refresh.stored # NoTokens
    /\ refresh.stored.expires_at - refresh.at = 3600
    /\ ~refresh.exchanged
    /\ refresh.result = Value(refresh.stored)
    /\ refresh.stored = fetch.bearer.value

C27_RevokeIsIdempotent ==
    /\ \A vendor \in Vendors, user_id \in Users :
          LET once == revoke_tokens(tokens, vendor, user_id)
          IN  /\ get_tokens(once, vendor, user_id) = NoTokens
              /\ \A e \in tokens : e.key # CursorKey(vendor, user_id) => e \in once
              /\ once \subseteq tokens
              /\ get_tokens(tokens, vendor, user_id) = NoTokens => once = tokens
              /\ revoke_tokens(once, vendor, user_id) = once
    /\ oauth.op = "disconnect" =>
          /\ oauth.result.ok
          /\ get_tokens(tokens, oauth.vendor, oauth.user_id) = NoTokens
          /\ tokens = revoke_tokens(oauth.before, oauth.vendor, oauth.user_id)

\* A user without tokens of one vendor, and with tokens of the other, is
\* disconnected from the first.
C27_Witness ==
    /\ oauth.op = "disconnect"
    /\ get_tokens(oauth.before, oauth.vendor, oauth.user_id) = NoTokens
    /\ oauth.before # {}
    /\ tokens = oauth.before

\* C28: the disconnect route answers 404 when the user has no tokens of
\* the vendor, and answers "disconnected" only when the user had some, which
\* are then revoked.
C28_DisconnectWithoutBindingIs404 ==
    oauth.op = "disconnect" =>
        IF get_tokens(oauth.before, oauth.vendor, oauth.user_id) = NoTokens
        THEN oauth.answer.status = 404
        ELSE /\ oauth.answer.status = 200
             /\ oauth.answer.body.status = "disconnected"
             /\ get_tokens(tokens, oauth.vendor, oauth.user_id) = NoTokens

\* C29: a callback answered 200 for state = u has stored the exchanged
\* tokens under (vendor, u), where get_tokens finds them, and has left
\* every other key as it was; a callback whose exchange was refused is
\* answered 401 and leaves the token store as it was.
C29_CallbackStoresOrLeaves ==
    oauth # NoOAuth /\ oauth.op = "callback" =>
        /\ oauth.answer.status = 200 =>
              /\ oauth.result.ok
              /\ get_tokens(tokens, oauth.vendor, oauth.user_id) = oauth.result.value
              /\ oauth.result.value # NoTokens
              /\ \A vendor \in Vendors, user_id \in PullUsers :
                    <<vendor, user_id>> # <<oauth.vendor, oauth.user_id>> =>
                        get_tokens(tokens, vendor, user_id)
                            = get_tokens(oauth.before, vendor, user_id)
        /\ oauth.usable /\ oauth.result.ok => oauth.answer.status = 200
        /\ oauth.usable /\ ~oauth.result.ok /\ oauth.result.exc = "OAuthError" =>
              oauth.answer.status = 401
        /\ oauth.answer.status # 200 => tokens = oauth.before

\* A refused exchange for a user whose tokens are stored.
C29_Witness ==
    /\ oauth # NoOAuth /\ oauth.op = "callback"
    /\ oauth.answer.status = 401
    /\ get_tokens(oauth.before, oauth.vendor, oauth.user_id) # NoTokens
    /\ tokens = oauth.before

\* The same callback with the vendor returning other secret values.
WithSecrets(result, secret) ==
    Value([result.value EXCEPT !.access_token = secret[1], !.refresh_token = secret[2]])

\* C30: the answer to a successful callback is the same whatever access
\* and refresh token values the vendor returned, and no field of it is one
\* of those values.
C30_CallbackAnswerHidesSecrets ==
    oauth # NoOAuth /\ oauth.op = "callback" /\ oauth.result.ok =>
        /\ \A secret \in Secrets :
              oauth_callback(oauth.vendor, oauth.user_id, oauth.usable,
                             WithSecrets(oauth.result, secret)) = oauth.answer
        /\ oauth.answer.status = 200
        /\ DOMAIN oauth.answer.body \subseteq
               {"status", "vendor", "user_id", "expires_in", "scopes", "note"}
        /\ oauth.answer.body.expires_in = oauth.result.value.expires_in
        /\ oauth.answer.body.scopes = oauth.result.value.scopes
        /\ "note" \in DOMAIN oauth.answer.body =>
               oauth.answer.body.note = "Real Garmin tokens obtained and saved"

\* A successful WHOOP callback.
C30_Witness ==
    /\ oauth # NoOAuth /\ oauth.op = "callback" /\ oauth.result.ok
    /\ oauth.vendor = "whoop"
    /\ oauth.answer.status = 200
    /\ oauth.result.value.access_token = "access-2"

\* The admissions in the time_window seconds that start at admission i.
WindowFrom(i) ==
    {j \in DOMAIN admissions :
        /\ admissions[j].at >= admissions[i].at
        /\ admissions[j].at - admissions[i].at < time_window}

\* What the limiter held when the fetch in progress asked for admission.
AdmissionsBefore ==
    IF fetch.admitted THEN SubSeq(admissions, 1, Len(admissions) - 1) ELSE admissions

C32_ErrorsAreStructured ==
    oauth # NoOAuth /\ oauth.answer.status >= 400 =>
        /\ oauth.answer.body.shape = "dict"
        /\ {"code", "message", "vendor"} \subseteq oauth.answer.body.keys

\* C33: an invocation of fetch_data never repeats a step: it makes at most
\* one admission check, one refresh_if_needed call and one HTTP request,
\* and it always ends, with a result or with the failure raised to the
\* caller.
C33_NoInternalRetry ==
    /\ [](fetch # NoFetch =>
            /\ Len(fetch.steps) <= Len(FetchOrder)
            /\ \A i, j \in 1..Len(fetch.steps) : fetch.steps[i] = fetch.steps[j] => i = j
            /\ fetch.pc = "done" => (fetch.result.raised \/ Took("http")))
    /\ [](fetch # NoFetch => <>(fetch.pc = "done"))

\* The vendor answered 429 and the invocation ended there.
C33_Witness ==
    /\ fetch # NoFetch /\ fetch.pc = "done"
    /\ fetch.steps = FetchOrder
    /\ fetch.response.status_code = 429
    /\ fetch.result.raised /\ fetch.result.exc = "RateLimitError"

\* A Garmin notification with a userId whose summaries, activities and
\* sleeps are each absent or an empty list.
NoPopulatedCollection(raw_body) ==
    /\ raw_body.kind = "json"
    /\ raw_body.doc.t = "obj"
    /\ "userId" \in DOMAIN raw_body.doc.o
    /\ \A key \in {"summaries", "activities", "sleeps"} :
          key \in DOMAIN raw_body.doc.o => raw_body.doc.o[key] = JArr(<<>>)

\* C34: a verified Garmin delivery whose payload has a userId and no
\* populated collection is parsed without error into an event of type
\* "unknown" with no resource id and the user id as trace_id, and that
\* event is put on the queue and the delivery answered 200.
C34_UnknownEventIsEnqueued ==
    (/\ request # NoRequest /\ request.vendor = "garmin"
     /\ ~request.verify.raised
     /\ NoPopulatedCollection(request.body)) =>
        LET result == parse_event(request.body)
        IN  /\ result.ok
            /\ result.event.type = JStr("unknown")
            /\ result.event.id = JNull
            /\ result.event.trace_id = request.body.doc.o["userId"]
            /\ request.parsed /\ request.enqueued /\ request.status = 200
            /\ Len(messages) = request.queued_before + 1
            /\ messages[Len(messages)].event = WebhookEvent("garmin", result.event)

\* Such a delivery with none of the three keys, accepted.
C34_Witness ==
    /\ request # NoRequest /\ request.vendor = "garmin"
    /\ request.body = JsonBody(UserOnlyDoc)
    /\ request.enqueued
    /\ messages[Len(messages)].event.event_type = JStr("unknown")

\* The attempts of pull p that ended in RateLimitError.
RateLimitedAttempts(p) ==
    {i \in 1..Len(pulls[p].attempts) : pulls[p].attempts[i][2].kind = "RateLimitError"}

OtherPairs(vendor, user_id) ==
    {pair \in Vendors \X Users : pair # <<vendor, user_id>>}

SameTokens(pairs) ==
    \A pair \in pairs :
        get_tokens(tokens', pair[1], pair[2]) = get_tokens(tokens, pair[1], pair[2])

SameCursors(pairs) ==
    \A pair \in pairs :
        get_cursor(cursors', pair[1], pair[2]) = get_cursor(cursors, pair[1], pair[2])

\* The pair whose cursor the step's operation names: the advanced one, or
\* else the reset one.
CursorTarget ==
    LET key == IF advanced' # NoAdvance THEN advanced'.key ELSE last_reset'.key
    IN  CHOOSE pair \in Vendors \X Users : CursorKey(pair[1], pair[2]) = key

\* C36: a step that changes the token store is a token operation of one
\* (vendor, user): it leaves the tokens of every other (vendor, user) and
\* the whole cursor store as they were; a step that changes the cursor
\* store is an advance or a reset of one (vendor, user): it leaves the
\* cursors of every other (vendor, user) and the whole token store as they
\* were.
C36_RecordsIsolatedPerKey ==
    [][/\ tokens' # tokens =>
            /\ oauth' # NoOAuth
            /\ SameTokens(OtherPairs(oauth'.vendor, oauth'.user_id))
            /\ SameCursors(Vendors \X Users)
       /\ cursors' # cursors =>
            /\ SameCursors(OtherPairs(CursorTarget[1], CursorTarget[2]))
            /\ SameTokens(Vendors \X Users)]_vars

\* Tokens of a second Garmin user are saved while the first user holds
\* other tokens and a cursor.
C36_Witness ==
    /\ oauth # NoOAuth
    /\ oauth.op = "callback"
    /\ oauth.user_id = "u2"
    /\ oauth.result.ok
    /\ get_tokens(tokens, "garmin", "u1") # NoTokens
    /\ get_tokens(tokens, "garmin", "u2") # get_tokens(oauth.before, "garmin", "u2")
    /\ get_tokens(tokens, "garmin", "u2") # get_tokens(tokens, "garmin", "u1")
    /\ get_cursor(cursors, "garmin", "u1") # NoCursor
    /\ get_cursor(cursors, "garmin", "u1").records_synced > 0

\* The non-empty values a request carries under the names of a header.
ValuesUnder(req, names) ==
    {req.headers[n] : n \in DOMAIN req.headers \cap names} \ {EmptyString}

NewSignatures(req) == ValuesUnder(req, {"Garmin-Signature", "garmin-signature"})
LegacySignatures(req) == ValuesUnder(req, {"X-Gfit-Signature", "x-gfit-signature"})

VerifyPassed(req) == ~req.verify.raised /\ req.verify.value = TRUE

\* C37: a Garmin delivery that carries a non-empty new-format signature and
\* a non-empty legacy signature passes exactly when the new-format value is
\* the HMAC of the body, whatever the legacy value is; and a delivery that
\* passes on a value the new-format header does not carry has no non-empty
\* new-format header at all and carries that value under the legacy header.
C37_NewHeaderTakesPrecedence ==
    (request.vendor = "garmin" /\ webhook_secret["garmin"] # "") =>
        /\ (Cardinality(NewSignatures(request)) = 1 /\ LegacySignatures(request) # {}) =>
              (VerifyPassed(request) <=> NewSignatures(request) = {ExpectedGarmin(request)})
        /\ (VerifyPassed(request) /\ ExpectedGarmin(request) \notin NewSignatures(request)) =>
              /\ NewSignatures(request) = {}
              /\ ExpectedGarmin(request) \in LegacySignatures(request)

\* A wrong new-format signature beside the right legacy one is refused.
C37_Witness ==
    /\ request.vendor = "garmin"
    /\ webhook_secret["garmin"] # ""
    /\ NewSignatures(request) # {}
    /\ ExpectedGarmin(request) \notin NewSignatures(request)
    /\ LegacySignatures(request) = {ExpectedGarmin(request)}
    /\ request.verify.raised
    /\ request.verify.msg = MsgHashMismatch
    /\ ~request.enqueued

\* A fetch of the request raised what the loop does not catch.
Aborted(pull) ==
    \E i \in 1..Len(pull.attempts) :
        pull.attempts[i][2].kind \notin CaughtErrors \cup {"records"}

\* C38: the step in which a fetch of a pull request raises an exception
\* that is not captured per resource ends the request as a failure and
\* leaves the cursor store as it was, and the request has made no
\* update_cursor call before it either.
C38_AbortedPullLeavesCursor ==
    [][\A p \in Tasks :
          (pulls'[p] # NoPull /\ pulls'[p] # pulls[p] /\ Aborted(pulls'[p])) =>
              /\ pulls'[p].pc = "failed"
              /\ pulls'[p].calls = <<>>
              /\ pulls'[p].response = NoPullResponse
              /\ cursors' = cursors]_vars

\* An incremental pull is aborted at its last fetch, after a fetch that
\* returned records, and the cursor is the one the pull started from.
C38_Witness ==
    \E p \in Tasks :
        /\ pulls[p] # NoPull
        /\ pulls[p].pc = "failed"
        /\ Aborted(pulls[p])
        /\ pulls[p].todo = <<>>
        /\ pulls[p].total_records > 0
        /\ pulls[p].pull_type = "incremental"
        /\ get_cursor(cursors, "whoop", pulls[p].user_id) # NoCursor
        /\ get_cursor(cursors, "whoop", pulls[p].user_id).last_sync_ts = pulls[p].cursor_at_start
        /\ pulls[p].now # pulls[p].cursor_at_start

\* The request of task p starts, goes on, or ends with its response in
\* this step.
Starts(p) == pulls[p] = NoPull /\ pulls'[p] # NoPull
GoesOn(p) == pulls[p] # NoPull /\ pulls'[p] # NoPull
Completes(p) == pulls'[p] # pulls[p] /\ pulls'[p] # NoPull /\ pulls'[p].pc = "done"

\* C39: a pull takes its pulled_at from the clock when it starts, before
\* any fetch, and keeps it; a pull without since that finds a cursor is
\* incremental and starts from the cursor's last_sync_ts; a pull that
\* completes writes its pulled_at as the cursor's last_sync_ts and answers
\* with it; and between pulls the cursor changes by a reset only.  So the
\* since of an incremental pull is the pulled_at of the pull that completed
\* last before it.
C39_PullWindowsContiguous ==
    [][/\ \A p \in Tasks :
            /\ Starts(p) =>
                  /\ pulls'[p].now = Iso(now)
                  /\ pulls'[p].attempts = <<>>
                  /\ pulls'[p].pull_type = "incremental" <=>
                        (/\ NotSince(pulls'[p].since_param)
                         /\ get_cursor(cursors, "whoop", pulls'[p].user_id) # NoCursor)
                  /\ pulls'[p].pull_type = "incremental" =>
                        pulls'[p].since =
                            get_cursor(cursors, "whoop", pulls'[p].user_id).last_sync_ts
            /\ GoesOn(p) =>
                  /\ pulls'[p].now = pulls[p].now
                  /\ pulls'[p].since = pulls[p].since
            /\ Completes(p) =>
                  /\ get_cursor(cursors', "whoop", pulls'[p].user_id).last_sync_ts
                        = pulls'[p].now
                  /\ pulls'[p].response.pulled_at = pulls'[p].now
                  /\ pulls'[p].response.since = pulls'[p].since
       /\ \A user_id \in PullUsers :
            get_cursor(cursors', "whoop", user_id) # get_cursor(cursors, "whoop", user_id) =>
                \/ \E p \in Tasks : Completes(p) /\ pulls'[p].user_id = user_id
                \/ /\ last_reset'.key = CursorKey("whoop", user_id)
                   /\ get_cursor(cursors', "whoop", user_id) = NoCursor]_vars

\* An incremental pull has completed after the clock went on during its
\* fetches: it started from the pulled_at of the pull before it, and the
\* cursor holds its own pulled_at, which is the time it started.
C39_Witness ==
    \E p \in Tasks :
        /\ pulls[p] # NoPull
        /\ pulls[p].pc = "done"
        /\ pulls[p].pull_type = "incremental"
        /\ pulls[p].attempts # <<>>
        /\ pulls[p].since = pulls[p].cursor_at_start
        /\ pulls[p].since.at < pulls[p].now.at
        /\ pulls[p].now.at < now
        /\ pulls[3 - p] = NoPull
        /\ get_cursor(cursors, "whoop", pulls[p].user_id).last_sync_ts = pulls[p].now
        /\ pulls[p].response.pulled_at = pulls[p].now

====
